---- MODULE Spec2Model ----
(***************************************************************************)
(* Model of the review pipeline of eust-w/ai_code_reviewer:                *)
(*   - chat.CodeReview / reviewSingleChunk / mergeReviewResults            *)
(*     (the chat package, carried in src/DEPLOYMENT.md from line 464 on),  *)
(*   - the webhook handlers of the three platforms and the server wiring,  *)
(*   - bot.handlePullRequest.                                              *)
(* Strings are modelled as sequences of tokens (a token is a TLA+ string), *)
(* so that concatenation, Join and Sprintf keep their structure.           *)
(***************************************************************************)
EXTENDS Integers, Sequences, FiniteSets, TLC

\* ------------------------------------------------------------------ bounds
MaxChunks == 2
MaxMerge == 3

\* the most commits a pull request has
MaxCommits == 3

\* the most files in a list given to filterFiles
MaxFiles == 2

\* the longest patch given to splitPatch, in pieces, and the largest maxTokens
MaxPatchLen == 5

MaxTokens == 4

\* the goroutines that call getOrCreateCollection for one repoKey at a time
MaxCallers == 2

\* the dimension QueryDocumentsWithEmbedding expects of a query vector (3072
\* in the source, scaled down)
ExpectedDimension == 3

\* ------------------------------------------------------- program constants
MaxRetries == 3
RetrySleepSeconds == 2

\* ------------------------------------------------------------ ReviewResult
EmptyStr == << >>

ReviewResult(lgtm, comment, summary, suggestions, highlights, risks) ==
  [LGTM |-> lgtm, ReviewComment |-> comment, Summary |-> summary,
   Suggestions |-> suggestions, Highlights |-> highlights, Risks |-> risks]

\* the Go zero value ReviewResult{}
ZeroResult == ReviewResult(FALSE, EmptyStr, EmptyStr, EmptyStr, EmptyStr, EmptyStr)

\* ReviewResult{LGTM: true}
NeutralResult == ReviewResult(TRUE, EmptyStr, EmptyStr, EmptyStr, EmptyStr, EmptyStr)

StringFields == {"ReviewComment", "Summary", "Suggestions", "Highlights", "Risks"}

\* json tag of each field of ReviewResult
JsonTag(f) ==
  CASE f = "LGTM" -> "lgtm"
    [] f = "ReviewComment" -> "review_comment"
    [] f = "Summary" -> "summary"
    [] f = "Suggestions" -> "suggestions"
    [] f = "Highlights" -> "highlights"
    [] f = "Risks" -> "risks"

\* ------------------------------------------------------------- JSON values
\* A JSON value is [t |-> "bool", v], [t |-> "str", v], [t |-> "null"] or
\* [t |-> "obj", v |-> object]; an object is a function from member names.
JBool(b) == [t |-> "bool", v |-> b]
JStr(s) == [t |-> "str", v |-> s]
JObj(o) == [t |-> "obj", v |-> o]

\* A message content is either free text without braces
\* ([kind |-> "text", empty]) or a JSON object, possibly surrounded by prose
\* ([kind |-> "json", prose, obj]).
TextContent(isEmpty) == [kind |-> "text", empty |-> isEmpty]
JsonContent(prose, o) == [kind |-> "json", prose |-> prose, obj |-> o]
EmptyContent == TextContent(TRUE)

\* the JSON object that encodes a ReviewResult
VerdictObj(r) ==
  [k \in {JsonTag(f) : f \in StringFields \cup {"LGTM"}} |->
     IF k = "lgtm" THEN JBool(r.LGTM)
     ELSE JStr(r[CHOOSE f \in StringFields : JsonTag(f) = k])]

JNull == [t |-> "null"]

\* wrapper keys in the order in which the code tests them
WrapKeys == <<"value", "data", "input", "result">>

WrapKeySet == {WrapKeys[i] : i \in 1..Len(WrapKeys)}

\* a pointer that may be nil
Nil == [isNil |-> TRUE]

Ptr(r) == [isNil |-> FALSE, val |-> r]

\* json.Unmarshal reports a syntax error before it touches the target:
\* anything that is not exactly one JSON value
SyntaxError(content) == content.kind # "json" \/ content.prose

\* decoding of one member into a field of ReviewResult: a bool for lgtm, a
\* string for the others, null leaves the field alone, any other type is an
\* UnmarshalTypeError and leaves the field alone
FieldTypeError(o, f) ==
  /\ JsonTag(f) \in DOMAIN o
  /\ o[JsonTag(f)].t # "null"
  /\ o[JsonTag(f)].t # (IF f = "LGTM" THEN "bool" ELSE "str")

DecodeField(o, f, old) ==
  IF JsonTag(f) \in DOMAIN o /\ o[JsonTag(f)].t = (IF f = "LGTM" THEN "bool" ELSE "str")
  THEN o[JsonTag(f)].v
  ELSE old

\* decoding of a JSON object into a ReviewResult that already holds `into`
\* (unknown members are ignored; decoding goes on after a type error)
DecodeReviewResult(o, into) ==
  [res |-> [f \in DOMAIN into |-> DecodeField(o, f, into[f])],
   err |-> \E f \in DOMAIN into : FieldTypeError(o, f)]

\* json.Unmarshal([]byte(content), &result)
UnmarshalReviewResult(content, into) ==
  IF SyntaxError(content) THEN [res |-> into, err |-> TRUE]
  ELSE DecodeReviewResult(content.obj, into)

\* the NestedResponse of reviewSingleChunk: four *ReviewResult
NestedNil == [k \in WrapKeySet |-> Nil]

DecodeNestedPtr(o, k, old) ==
  IF k \notin DOMAIN o THEN old
  ELSE IF o[k].t = "null" THEN Nil
  ELSE IF o[k].t = "obj"
       THEN Ptr(DecodeReviewResult(o[k].v, IF old.isNil THEN ZeroResult ELSE old.val).res)
  ELSE old

NestedPtrError(o, k) ==
  /\ k \in DOMAIN o
  /\ \/ o[k].t \in {"bool", "str"}
     \/ o[k].t = "obj" /\ DecodeReviewResult(o[k].v, ZeroResult).err

\* json.Unmarshal([]byte(content), &nestedResult)
UnmarshalNestedResponse(content, into) ==
  IF SyntaxError(content) THEN [res |-> into, err |-> TRUE]
  ELSE [res |-> [k \in WrapKeySet |-> DecodeNestedPtr(content.obj, k, into[k])],
        err |-> \E k \in WrapKeySet : NestedPtrError(content.obj, k)]

\* the first wrapper key, in the code's order, that is in `present`;
\* 0 when there is none
FirstWrapKey(present) ==
  IF \E j \in 1..Len(WrapKeys) : WrapKeys[j] \in present
  THEN CHOOSE j \in 1..Len(WrapKeys) :
         WrapKeys[j] \in present /\ \A h \in 1..(j - 1) : WrapKeys[h] \notin present
  ELSE 0

\* ------------------------------------------------------ extractNestedJSON
\* NestedContent holds four map[string]interface{}: a member decodes when
\* it is an object (any object) or null, and is a type error otherwise
NestedContentError(o) ==
  \E k \in WrapKeySet : k \in DOMAIN o /\ o[k].t \in {"bool", "str"}

NestedContentHas(o, k) == k \in DOMAIN o /\ o[k].t = "obj"

\* extractNestedJSON(content): the content with one wrapper level removed
\* (json.Marshal of the inner map), or the content as it is
extractNestedJSON(content) ==
  IF SyntaxError(content) THEN content
  ELSE IF NestedContentError(content.obj) THEN content
  ELSE LET j == FirstWrapKey({k \in WrapKeySet : NestedContentHas(content.obj, k)})
       IN IF j = 0 THEN content
          ELSE JsonContent(FALSE, content.obj[WrapKeys[j]].v)

\* ------------------------------------------- reviewSingleChunk: ProcessResult
\* content[jsonStartIdx : jsonEndIdx+1], the text from the first "{" to the
\* last "}"; HasBraces is the test jsonStartIdx >= 0 && jsonEndIdx > jsonStartIdx
HasBraces(content) == content.kind = "json"

BraceSlice(content) == JsonContent(FALSE, content.obj)

\* `result = *nestedResult.X` for the first non-nil X, else result unchanged
UseNested(result, nested) ==
  LET j == FirstWrapKey({k \in WrapKeySet : ~nested[k].isNil})
  IN IF j = 0 THEN result ELSE nested[WrapKeys[j]].val

\* the code from the label ProcessResult to the end of reviewSingleChunk
ProcessResult(content) ==
  LET d1 == UnmarshalReviewResult(content, ZeroResult)
      n1 == UnmarshalNestedResponse(content, NestedNil)
      jsonContent == BraceSlice(content)
      d2 == UnmarshalReviewResult(jsonContent, d1.res)
      n2 == UnmarshalNestedResponse(jsonContent, n1.res)
  IN IF ~d1.err THEN d1.res
     ELSE IF ~n1.err THEN UseNested(d1.res, n1.res)
     ELSE IF ~HasBraces(content) THEN NeutralResult
     ELSE IF ~d2.err THEN UseNested(d2.res, n1.res)
     ELSE IF n2.err THEN NeutralResult
     ELSE UseNested(d2.res, n2.res)

\* --------------------------------------------------------------- providers
\* the failover chain in the order of reviewSingleChunk
Providers == <<"Claude", "Deepseek", "DirectLLM", "OpenAI">>

ProviderSet == {Providers[i] : i \in 1..Len(Providers)}

\* config.Config, the four switches reviewSingleChunk reads
\* (HasOpenAIKey stands for c.config.OpenAIAPIKey != "")
Configs ==
  [IsClaudeEnabled : BOOLEAN, IsDeepseekEnabled : BOOLEAN,
   IsDirectLLM : BOOLEAN, HasOpenAIKey : BOOLEAN]

Enabled(c, p) ==
  CASE p = "Claude" -> c.IsClaudeEnabled
    [] p = "Deepseek" -> c.IsDeepseekEnabled
    [] p = "DirectLLM" -> c.IsDirectLLM
    [] p = "OpenAI" -> c.HasOpenAIKey

EnabledSet(c) == {p \in ProviderSet : Enabled(c, p)}

\* NewChat returns an error, and the server exits, unless one provider is
\* configured
NewChatOK(c) == EnabledSet(c) # {}

\* An HTTP exchange with a provider: the transport worked or not, the status
\* code, the number of choices in the body and the first choice's content.
HttpResponse(net, status, choices, content) ==
  [net |-> net, status |-> status, choices |-> choices, content |-> content]

\* callLLMAPI / callClaudeAPI (the two differ in the request only): the
\* content of the first choice after extractNestedJSON, or an error
callLLMAPI(resp) ==
  IF ~resp.net THEN [content |-> EmptyContent, err |-> TRUE]
  ELSE IF resp.status # 200 THEN [content |-> EmptyContent, err |-> TRUE]
  ELSE IF resp.choices = 0 THEN [content |-> EmptyContent, err |-> TRUE]
  ELSE [content |-> extractNestedJSON(resp.content), err |-> FALSE]

\* c.client.CreateChatCompletion: an error, or the response with its choices
CreateChatCompletion(resp) ==
  IF ~resp.net \/ resp.status # 200
  THEN [choices |-> 0, content |-> EmptyContent, err |-> TRUE]
  ELSE [choices |-> resp.choices, content |-> resp.content, err |-> FALSE]

\* a provider answered: HTTP 200 with at least one choice
Answered(resp) == resp.net /\ resp.status = 200 /\ resp.choices > 0

\* one entry of the log of the provider calls of a run: the provider that was
\* called and whether it answered
Call(p, resp) == [provider |-> p, ok |-> Answered(resp)]

Return(result, err, calls) == [result |-> result, err |-> err, calls |-> calls]

\* the OpenAI block and the tail of reviewSingleChunk; `calls` are the calls
\* made so far (all failed, so content is still "")
reviewOpenAI(c, env, calls) ==
  IF c.HasOpenAIKey
  THEN LET resp == CreateChatCompletion(env["OpenAI"])
       IN IF resp.err
          THEN Return(ZeroResult, TRUE, Append(calls, Call("OpenAI", env["OpenAI"])))
          ELSE IF resp.choices = 0
          THEN Return(NeutralResult, FALSE, Append(calls, Call("OpenAI", env["OpenAI"])))
          ELSE IF resp.content = EmptyContent
          THEN Return(NeutralResult, FALSE, Append(calls, Call("OpenAI", env["OpenAI"])))
          ELSE Return(ProcessResult(resp.content), FALSE,
                      Append(calls, Call("OpenAI", env["OpenAI"])))
  ELSE Return(NeutralResult, FALSE, calls)

reviewDirect(c, env, calls) ==
  IF c.IsDirectLLM
  THEN LET r == callLLMAPI(env["DirectLLM"])
       IN IF ~r.err
          THEN Return(ProcessResult(r.content), FALSE,
                      Append(calls, Call("DirectLLM", env["DirectLLM"])))
          ELSE reviewOpenAI(c, env, Append(calls, Call("DirectLLM", env["DirectLLM"])))
  ELSE reviewOpenAI(c, env, calls)

reviewDeepseek(c, env, calls) ==
  IF c.IsDeepseekEnabled
  THEN LET r == callLLMAPI(env["Deepseek"])
       IN IF ~r.err
          THEN Return(ProcessResult(r.content), FALSE,
                      Append(calls, Call("Deepseek", env["Deepseek"])))
          ELSE reviewDirect(c, env, Append(calls, Call("Deepseek", env["Deepseek"])))
  ELSE reviewDirect(c, env, calls)

\* (mutant) Claude is passed over
reviewSingleChunk_withoutClaude(c, env) == reviewDeepseek(c, env, << >>)

\* reviewSingleChunk(ctx, prompt): env[p] is the exchange provider p would
\* give for this prompt; the result, the error and the calls made, in order
reviewSingleChunk(c, env) ==
  IF c.IsClaudeEnabled
  THEN LET r == callLLMAPI(env["Claude"])
       IN IF ~r.err
          THEN Return(ProcessResult(r.content), FALSE, <<Call("Claude", env["Claude"])>>)
          ELSE reviewDeepseek(c, env, <<Call("Claude", env["Claude"])>>)
  ELSE reviewDeepseek(c, env, << >>)

\* ------------------------------------------------------ mergeReviewResults
\* strings.Join(elems, sep)
RECURSIVE Join(_, _)
Join(elems, sep) ==
  IF elems = << >> THEN EmptyStr
  ELSE IF Len(elems) = 1 THEN elems[1]
  ELSE elems[1] \o sep \o Join(Tail(elems), sep)

\* fmt.Sprintf("### <code block> %d/%d <review result>:\n\n%s", i, n, s); the
\* literal text of the source is Chinese and is written here in ASCII
ChunkHeader(i, n, str) ==
  <<"### code block ", ToString(i), "/", ToString(n), " review result:\n\n">> \o str

\* fmt.Sprintf("**<block> %d/%d**: %s", i, n, s)
ChunkLabel(i, n, str) == <<"**block ", ToString(i), "/", ToString(n), "**: ">> \o str

CommentSeparator == <<"\n\n---\n\n">>

FieldSeparator == <<"\n\n">>

\* the slice collected for one string field: with several results only the
\* non-empty values, each labelled; with one result the value as it is
RECURSIVE CollectField(_, _, _, _)
CollectField(results, f, i, n) ==
  IF i > n THEN << >>
  ELSE IF n > 1
       THEN (IF results[i][f] # EmptyStr
             THEN <<ChunkLabel(i, n, results[i][f])>> ELSE << >>)
            \o CollectField(results, f, i + 1, n)
       ELSE <<results[i][f]>> \o CollectField(results, f, i + 1, n)

\* the loop's `if !result.LGTM { lgtm = false }` from result i on
RECURSIVE LgtmLoop(_, _, _)
LgtmLoop(results, i, lgtm) ==
  IF i > Len(results) THEN lgtm
  ELSE LgtmLoop(results, i + 1, IF ~results[i].LGTM THEN FALSE ELSE lgtm)

\* (mutant) the flag of the last result decides
MergedLGTM_lastDecides(results) == results[Len(results)].LGTM

\* the lgtm flag after the loop, which starts from `lgtm := true`
MergedLGTM(results) == LgtmLoop(results, 1, TRUE)

MergedComments(results) ==
  [i \in 1..Len(results) |->
     IF Len(results) > 1
     THEN ChunkHeader(i, Len(results), results[i].ReviewComment)
     ELSE results[i].ReviewComment]

mergeReviewResults(results) ==
  IF Len(results) = 0 THEN NeutralResult
  ELSE ReviewResult(
         MergedLGTM(results),
         Join(MergedComments(results), CommentSeparator),
         Join(CollectField(results, "Summary", 1, Len(results)), FieldSeparator),
         Join(CollectField(results, "Suggestions", 1, Len(results)), FieldSeparator),
         Join(CollectField(results, "Highlights", 1, Len(results)), FieldSeparator),
         Join(CollectField(results, "Risks", 1, Len(results)), FieldSeparator))

\* ------------------------------------------------------ the LLM providers
\* generatePrompt(patches[idx]), with or without the "This is part i of N"
\* prefix that the worker goroutine puts in front of it
Prompt(idx, labelled) == [chunk |-> idx, label |-> labelled]

\* a verdict a provider may give for a prompt: it names the chunk reviewed
ModelVerdict(prompt, lgtm) ==
  ReviewResult(lgtm, <<"review of chunk ", ToString(prompt.chunk)>>, <<"summary">>,
               IF lgtm THEN EmptyStr ELSE <<"fix it">>, EmptyStr, EmptyStr)

ResponseKinds == {"http500", "nochoices", "lgtm", "changes"}

\* the exchange of each kind that a provider may give for the prompt
Response(prompt, kind) ==
  CASE kind = "http500" -> HttpResponse(TRUE, 500, 0, EmptyContent)
    [] kind = "nochoices" -> HttpResponse(TRUE, 200, 0, EmptyContent)
    [] kind = "lgtm" ->
         HttpResponse(TRUE, 200, 1, JsonContent(FALSE, VerdictObj(ModelVerdict(prompt, TRUE))))
    [] kind = "changes" ->
         HttpResponse(TRUE, 200, 1, JsonContent(FALSE, VerdictObj(ModelVerdict(prompt, FALSE))))

\* the kinds of exchange after which reviewSingleChunk asks the next provider
FailKinds(p) == IF p = "OpenAI" THEN {"http500"} ELSE {"http500", "nochoices"}

\* The answers of the enabled providers from position n of the chain on, as
\* kinds. The answer of a provider is read only if all the providers before
\* it failed, so after the first answer that is no failure the others are
\* not enumerated: they are all "http500".
RECURSIVE ChainKinds(_, _)
ChainKinds(c, n) ==
  IF n > Len(Providers) THEN {<< >>}
  ELSE IF ~Enabled(c, Providers[n])
       THEN {<<"http500">> \o t : t \in ChainKinds(c, n + 1)}
       ELSE {<<k>> \o t : k \in FailKinds(Providers[n]), t \in ChainKinds(c, n + 1)}
            \cup {<<k>> \o [m \in 1..(Len(Providers) - n) |-> "http500"] :
                    k \in ResponseKinds \ FailKinds(Providers[n])}

ProviderIndex(p) == CHOOSE n \in 1..Len(Providers) : Providers[n] = p

\* what the enabled providers would answer to one prompt
Envs(c, prompt) ==
  {[p \in EnabledSet(c) |-> Response(prompt, kinds[ProviderIndex(p)])] :
     kinds \in ChainKinds(c, 1)}

\* a verdict that names the provider that gave it
ProviderVerdict(p, lgtm) ==
  ReviewResult(lgtm, <<"reviewed by ", p>>, <<"summary">>,
               IF lgtm THEN EmptyStr ELSE <<"fix it">>, EmptyStr, <<"risk">>)

\* {"<key>": {verdict}}: the verdict wrapped under one key
Wrapped(key, r) == JsonContent(FALSE, [k \in {key} |-> JObj(VerdictObj(r))])

AnswerKinds ==
  {"neterr", "http500", "nochoices", "lgtm", "changes", "empty", "prose", "badtype"}
  \cup WrapKeySet

\* the exchange of each kind that provider p may give
Answer(p, kind) ==
  CASE kind = "neterr" -> HttpResponse(FALSE, 0, 0, EmptyContent)
    [] kind = "http500" -> HttpResponse(TRUE, 500, 0, EmptyContent)
    [] kind = "nochoices" -> HttpResponse(TRUE, 200, 0, EmptyContent)
    [] kind = "lgtm" ->
         HttpResponse(TRUE, 200, 1, JsonContent(FALSE, VerdictObj(ProviderVerdict(p, TRUE))))
    [] kind = "changes" ->
         HttpResponse(TRUE, 200, 1, JsonContent(FALSE, VerdictObj(ProviderVerdict(p, FALSE))))
    [] kind = "empty" -> HttpResponse(TRUE, 200, 1, EmptyContent)
    [] kind = "prose" ->
         HttpResponse(TRUE, 200, 1, JsonContent(TRUE, VerdictObj(ProviderVerdict(p, FALSE))))
    [] kind = "badtype" ->
         HttpResponse(TRUE, 200, 1,
           JsonContent(FALSE, [VerdictObj(ProviderVerdict(p, FALSE)) EXCEPT !["lgtm"] = JStr(<<"no">>)]))
    [] kind \in WrapKeySet ->
         HttpResponse(TRUE, 200, 1, Wrapped(kind, ProviderVerdict(p, TRUE)))

\* the results mergeReviewResults is given
SampleResults ==
  {ReviewResult(l, c, s, EmptyStr, EmptyStr, EmptyStr) :
     l \in BOOLEAN, c \in {EmptyStr, <<"c">>}, s \in {EmptyStr, <<"s">>}}

RECURSIVE SeqsUpTo(_, _)
SeqsUpTo(S, n) ==
  IF n = 0 THEN {<< >>}
  ELSE SeqsUpTo(S, n - 1) \cup
       {Append(q, x) : q \in {t \in SeqsUpTo(S, n - 1) : Len(t) = n - 1}, x \in S}

\* ------------------------------------------------- webhook signatures
\* Header values, payloads and secrets are sequences of bytes (0..255); a
\* header that is absent is the empty sequence, as r.Header.Get gives "".
Ascii(str) ==
  CASE str = "sha1" -> <<115, 104, 97, 49>>
    [] str = "sha256" -> <<115, 104, 97, 50, 53, 54>>
    [] str = "sha512" -> <<115, 104, 97, 53, 49, 50>>
    [] str = "=" -> <<61>>

\* the keyed digest of a payload, one byte wide. hmac.New(hash, secret) is
\* library code; it is modelled as a function for which two payloads that
\* differ in a single bit never have the same digest.
RECURSIVE MacFold(_, _, _)
MacFold(h, mult, bytes) ==
  IF bytes = << >> THEN h
  ELSE MacFold((h * mult + Head(bytes) + 171) % 256, mult, Tail(bytes))

HashMult(hash) == CASE hash = "sha1" -> 29 [] hash = "sha256" -> 37 [] hash = "sha512" -> 53

Hmac(hash, secret, payload) ==
  <<MacFold(MacFold(0, HashMult(hash), secret), HashMult(hash), payload)>>

\* hex.EncodeToString: two lower-case digits per byte
HexDigit(n) == IF n < 10 THEN 48 + n ELSE 87 + n

RECURSIVE EncodeToString(_)
EncodeToString(bytes) ==
  IF bytes = << >> THEN << >>
  ELSE <<HexDigit(Head(bytes) \div 16), HexDigit(Head(bytes) % 16)>>
       \o EncodeToString(Tail(bytes))

\* hex.DecodeString: digits of either case; -1 for a byte that is no digit
FromHexChar(c) ==
  IF c >= 48 /\ c <= 57 THEN c - 48
  ELSE IF c >= 97 /\ c <= 102 THEN c - 87
  ELSE IF c >= 65 /\ c <= 70 THEN c - 55
  ELSE -1

RECURSIVE DecodeBytes(_)
DecodeBytes(chars) ==
  IF chars = << >> THEN << >>
  ELSE <<FromHexChar(chars[1]) * 16 + FromHexChar(chars[2])>>
       \o DecodeBytes(Tail(Tail(chars)))

DecodeString(chars) ==
  IF Len(chars) % 2 = 1 \/ \E n \in 1..Len(chars) : FromHexChar(chars[n]) = -1
  THEN [err |-> TRUE, bytes |-> << >>]
  ELSE [err |-> FALSE, bytes |-> DecodeBytes(chars)]

\* strings.SplitN(signature, "=", 2): the position of the first "=", or 0
FirstEquals(signature) ==
  IF \E n \in 1..Len(signature) : signature[n] = 61
  THEN CHOOSE n \in 1..Len(signature) :
         signature[n] = 61 /\ \A m \in 1..(n - 1) : signature[m] # 61
  ELSE 0

\* github.ValidateSignature(signature, payload, secret) of go-github, which
\* webhook.go calls: "<hash>=<hex digest>", the digest compared as bytes.
\* TRUE when the signature is valid.
ValidateSignature(signature, payload, secret) ==
  LET eq == FirstEquals(signature)
      name == SubSeq(signature, 1, eq - 1)
      digest == DecodeString(SubSeq(signature, eq + 1, Len(signature)))
      hashes == {h \in {"sha1", "sha256", "sha512"} : Ascii(h) = name}
  IN /\ signature # << >>
     /\ eq # 0
     /\ hashes # {}
     /\ ~digest.err
     /\ digest.bytes = Hmac(CHOOSE h \in hashes : TRUE, secret, payload)

\* (mutant) the signature is compared with the digest of the empty payload
validateGiteaSignature_ignoresPayload(secret, signature, payload) ==
  EncodeToString(Hmac("sha256", secret, << >>)) = signature

\* validateGiteaSignature: the header compared with the lower-case hex digest
validateGiteaSignature(secret, signature, payload) ==
  EncodeToString(Hmac("sha256", secret, payload)) = signature

\* ------------------------------------------------- the platform clients
Platforms == {"github", "gitlab", "gitea"}

\* The pull request of the event: the commits 1..n on top of commit 0, the
\* tip of the target branch; a commit's SHA is its number. touch[k] is the
\* set of the files commit k changes.
File(name, ext, status, hasPatch) ==
  [Filename |-> <<name, ".", ext>>, Ext |-> ext, Status |-> status,
   Patch |-> IF hasPatch THEN <<"@@ ", name>> ELSE EmptyStr]

MainGo == File("main", "go", "modified", TRUE)

ReadmeMd == File("README", "md", "added", TRUE)

GoneGo == File("gone", "go", "removed", FALSE)

FileOrder == <<MainGo, ReadmeMd, GoneGo>>

Touches == {{MainGo}, {ReadmeMd}, {MainGo, ReadmeMd}, {GoneGo}}

\* the files of a set, in the order a platform lists them
FileList(S) == SelectSeq(FileOrder, LAMBDA f : f \in S)

\* the files changed by the commits lo+1..hi
Changed(touch, lo, hi) == UNION {touch[k] : k \in (lo + 1)..hi}

RECURSIVE Ascending(_, _)
Ascending(lo, hi) == IF lo > hi THEN << >> ELSE <<lo>> \o Ascending(lo + 1, hi)

RECURSIVE Descending(_, _)
Descending(hi, lo) == IF hi < lo THEN << >> ELSE <<hi>> \o Descending(hi - 1, lo)

Compared(files, commits) == [files |-> files, commits |-> commits, err |-> FALSE]

CompareError == [files |-> << >>, commits |-> << >>, err |-> TRUE]

\* github Client.CompareCommits: the files and the commits of base...head,
\* the commits oldest first
GithubCompareCommits(touch, base, head) ==
  Compared(FileList(Changed(touch, base, head)), Ascending(base + 1, head))

\* a file of the diff from a commit back to an earlier one: what the later
\* commits added is deleted, what they removed is added, and the patch is
\* the reverse one
Reversed(f) ==
  [f EXCEPT !.Status = CASE @ = "added" -> "deleted" [] @ = "removed" -> "added" [] OTHER -> @,
            !.Patch = IF @ = EmptyStr THEN @ ELSE <<"reverse of ">> \o @]

ReversedList(files) == [n \in 1..Len(files) |-> Reversed(files[n])]

\* gitlab Client.CompareCommits: the diffs of Compare(from, to), and the
\* commits ListCommits(ref = head) gives, newest first, up to base
GitlabCompareCommits(touch, base, head) ==
  Compared(IF base <= head THEN FileList(Changed(touch, base, head))
                           ELSE ReversedList(FileList(Changed(touch, head, base))),
           IF base < head THEN Descending(head, base + 1) ELSE Descending(head, 0))

\* gitea Client.CompareCommits: the open pull request whose head is `head`
\* is looked up; none: no files and the commits {head, base}; found: the
\* files of that pull request's diff and the commits {pr.Head, pr.Base}.
\* openPRs maps the head SHA of each open pull request to its base SHA and
\* its files.
GiteaCompareCommits(openPRs, base, head) ==
  IF head \notin DOMAIN openPRs
  THEN Compared(<< >>, <<head, base>>)
  ELSE Compared(FileList(openPRs[head].files), <<head, openPRs[head].base>>)

\* u.Path of file.ContentsURL: /repos/<owner>/<repo>/contents/<file> on
\* github and gitea, /api/v4/projects/<owner>/<repo>/repository/files/<file>/raw
\* on gitlab; a path is the sequence of its names, dots and slashes
Pathname(platform, file) ==
  IF platform = "gitlab"
  THEN <<"/", "api", "/", "v4", "/", "projects", "/", "o", "/", "r", "/", "repository",
         "/", "files", "/">> \o file.Filename \o <<"/", "raw">>
  ELSE <<"/", "repos", "/", "o", "/", "r", "/", "contents", "/">> \o file.Filename

\* url.Parse(contentsURL) fails: gitlab and gitea build the URL from the
\* file name as it is, and a "%" that starts no escape is no URL
ParseFails(platform, file) ==
  /\ platform # "github"
  /\ \E n \in 1..Len(file.Filename) : file.Filename[n] = "100%"

\* glob.Compile(pattern).Match(path), compiled without separators: "*" and
\* "**" match any run of characters, anything else matches itself
RECURSIVE GlobMatch(_, _)
GlobMatch(pattern, path) ==
  IF pattern = << >> THEN path = << >>
  ELSE IF Head(pattern) \in {"*", "**"}
       THEN \E k \in 0..Len(path) :
              GlobMatch(Tail(pattern), SubSeq(path, k + 1, Len(path)))
  ELSE /\ path # << >>
       /\ Head(path) = Head(pattern)
       /\ GlobMatch(Tail(pattern), Tail(path))

\* matchPatterns: "Adjust pattern format"
Adjusted(pattern) ==
  IF Head(pattern) = "/" THEN <<"**">> \o pattern
  ELSE IF Head(pattern) # "**" THEN <<"**", "/">> \o pattern
  ELSE pattern

\* matchPatterns(patterns, path)
RECURSIVE matchPatterns(_, _)
matchPatterns(patterns, path) ==
  IF patterns = << >> THEN FALSE
  ELSE IF Head(patterns) = << >> THEN matchPatterns(Tail(patterns), path)
  ELSE IF Head(patterns) = <<"*">> THEN TRUE
  ELSE IF GlobMatch(Adjusted(Head(patterns)), path) THEN TRUE
  ELSE matchPatterns(Tail(patterns), path)

\* the patterns "*.go", "*.md" and "/x/**"
StarGo == <<"*", ".", "go">>

StarMd == <<"*", ".", "md">>

SlashX == <<"/", "x", "/", "**">>

\* the bot's configuration: the filter's lists and b.config.TargetLabel
BotConfigs ==
  {[IgnoreList |-> << >>, IncludePatterns |-> << >>, IgnorePatterns |-> <<StarMd>>,
    TargetLabel |-> ""],
   [IgnoreList |-> <<GoneGo.Filename>>, IncludePatterns |-> <<StarGo>>,
    IgnorePatterns |-> << >>, TargetLabel |-> ""]}

\* the body of filterFiles' loop: the file is kept
Retained(cfg, platform, file) ==
  /\ \A n \in 1..Len(cfg.IgnoreList) : cfg.IgnoreList[n] # file.Filename
  /\ ~ParseFails(platform, file)
  /\ (Len(cfg.IncludePatterns) > 0
        => matchPatterns(cfg.IncludePatterns, Pathname(platform, file)))
  /\ (Len(cfg.IgnorePatterns) > 0
        => ~matchPatterns(cfg.IgnorePatterns, Pathname(platform, file)))

\* filterFiles' loop from file k on: a kept file is appended to filtered
RECURSIVE FilterLoop(_, _, _, _, _)
FilterLoop(cfg, platform, files, k, filtered) ==
  IF k > Len(files) THEN filtered
  ELSE FilterLoop(cfg, platform, files, k + 1,
                  IF Retained(cfg, platform, files[k]) THEN Append(filtered, files[k])
                  ELSE filtered)

filterFiles(cfg, platform, files) ==
  IF Len(files) = 0 THEN files ELSE FilterLoop(cfg, platform, files, 1, << >>)

\* ----------------------------------------------------- Chat.CodeReview
VARIABLES
  config,      \* c.config
  chunkCount,  \* len(patches), the chunks splitPatch returned
  pc,          \* where CodeReview (and then its caller) stands
  worker,      \* worker[idx]: the goroutine of chunk idx
  resultChan,  \* the buffered channel of (index, result, err)
  results,     \* results[idx+1] is the Go results[idx]
  i,           \* the loop counter of the collection loop
  r,           \* the message whose chunk is being retried
  retryCount,  \* the loop counter of the retry loop
  tries,       \* tries[idx+1]: the reviewSingleChunk runs made for chunk idx
  chainFailed, \* chainFailed[idx+1]: the latest run for chunk idx had every provider it
               \* called fail
  produced,    \* produced[idx+1]: the verdict of the run for chunk idx that
               \* returned no error, if there was one
  slept,       \* seconds spent in time.Sleep by the retry loop
  ret,         \* what CodeReview returned
  sentPrompts, \* the prompts handed to reviewSingleChunk so far
  reviewComments  \* the caller's comments for the file

chatvars == <<config, chunkCount, pc, worker, resultChan, results, i, r, retryCount,
              tries, chainFailed, produced, slept, ret, sentPrompts>>

dvars == <<chatvars, reviewComments>>

VARIABLES
  answers,     \* a call of reviewSingleChunk: what each enabled provider answers
  chainRun,    \* and what the call returned, once it has
  mergeInput,  \* a call of mergeReviewResults: its argument
  mergeOutput  \* and what it returned, once it has

VARIABLES
  platform,      \* cfg.Platform
  webhookSecret, \* h.secret
  botConfig,     \* b.config, the filter's part
  repo,          \* the pull request on the platform
  request,       \* the HTTP request to /webhook
  hpc,           \* where HandleWebhook is
  httpStatus,    \* the status code written to the response, 0 before
  handlerCalls,  \* the event handlers HandleWebhook has called
  gpc,           \* where the goroutine of the event handler is
  outcome,       \* how the goroutine ended
  changedFiles,  \* handlePullRequest's changedFiles
  commits,       \* handlePullRequest's commits
  posted,        \* the reviews the platform has received
  apiFailed      \* a call to the platform's API has failed

svars == <<platform, webhookSecret, botConfig, repo, request, hpc, httpStatus,
           handlerCalls, gpc, outcome, changedFiles, commits, posted, apiFailed>>

cvars == <<answers, chainRun>>

mvars == <<mergeInput, mergeOutput>>

VARIABLES
  commentCase,   \* a file's review: the handler, the language, the model's answer
  fileReview     \* and the comments and the review body made of it, once made

VARIABLES
  cancelCase,    \* a handler call under a context: the platform, the chat, the files
  ctxDone,       \* the context of the call has been cancelled
  handling       \* the locals of handlePullRequest in that call

kvars == <<cancelCase, ctxDone, handling>>

VARIABLES
  filterCase,    \* a call of filterFiles: the platform, b.config and the files
  filtered       \* and what it returned, once it has

pvars == <<filterCase, filtered>>

VARIABLES
  args,          \* one call of a function: its name and its arguments
  returned,      \* and what the call returned, once it has
  stored         \* what the storage behind the call holds

tvars == <<args, returned, stored>>

fvars == <<commentCase, fileReview, kvars, pvars, tvars>>

vars == <<dvars, cvars, mvars, fvars, svars>>

NoMsg == [index |-> -1, result |-> ZeroResult, err |-> FALSE]

NoReturn == [result |-> ZeroResult, err |-> FALSE, returned |-> FALSE]

Msg(idx, result, err) == [index |-> idx, result |-> result, err |-> err]

\* every provider the run called failed (and it called one)
AllCallsFailed(run) ==
  /\ run.calls # << >>
  /\ \A n \in 1..Len(run.calls) : ~run.calls[n].ok

InitCodeReview ==
  /\ config \in {c \in Configs : NewChatOK(c)}
  /\ chunkCount \in 1..MaxChunks
  /\ pc = "start"
  /\ worker = [idx \in 0..(chunkCount - 1) |-> "idle"]
  /\ resultChan = << >>
  /\ results = << >>
  /\ i = 0
  /\ r = NoMsg
  /\ retryCount = 0
  /\ tries = [k \in 1..chunkCount |-> 0]
  /\ chainFailed = [k \in 1..chunkCount |-> FALSE]
  /\ produced = [k \in 1..chunkCount |-> Nil]
  /\ slept = 0
  /\ ret = NoReturn
  /\ sentPrompts = {}
  /\ reviewComments = << >>

\* CodeReview up to the collection loop: with several chunks it makes the
\* channel and the results slice and starts one goroutine per chunk
StartCodeReview ==
  /\ pc = "start"
  /\ pc' = IF chunkCount > 1 THEN "collect" ELSE "single"
  /\ worker' = IF chunkCount > 1 THEN [idx \in DOMAIN worker |-> "running"] ELSE worker
  /\ results' = IF chunkCount > 1 THEN [k \in 1..chunkCount |-> ZeroResult] ELSE results
  /\ UNCHANGED <<config, chunkCount, resultChan, i, r, retryCount, tries, chainFailed, produced, slept,
                 ret, sentPrompts, reviewComments>>

\* the goroutine of chunk idx: one reviewSingleChunk of the labelled prompt,
\* then the send on the channel (whose capacity is chunkCount)
WorkerSend(idx, run) == Append(resultChan, Msg(idx, run.result, run.err))

\* (mutant) a channel with room for one message less
ChanCapacity_oneShort == chunkCount - 1

\* make(chan struct{...}, chunkCount): the capacity of resultChan
ChanCapacity == chunkCount

\* a send on the channel goes through at once while the buffer has room
\* and blocks while it is full
Worker(idx) ==
  /\ pc = "collect"
  /\ worker[idx] = "running"
  /\ Len(resultChan) < ChanCapacity
  /\ \E env \in Envs(config, Prompt(idx, TRUE)) :
       LET run == reviewSingleChunk(config, env)
       IN /\ resultChan' = WorkerSend(idx, run)
          /\ chainFailed' = [chainFailed EXCEPT ![idx + 1] = AllCallsFailed(run)]
          /\ produced' = [produced EXCEPT ![idx + 1] = IF run.err THEN @ ELSE Ptr(run.result)]
  /\ tries' = [tries EXCEPT ![idx + 1] = @ + 1]
  /\ sentPrompts' = sentPrompts \cup {Prompt(idx, TRUE)}
  /\ worker' = [worker EXCEPT ![idx] = "done"]
  /\ UNCHANGED <<config, chunkCount, pc, results, i, r, retryCount, slept, ret,
                 reviewComments>>

\* (mutant) the result is stored in arrival order, results[i]
ResultSlot_byArrival(msg, loopIndex) == loopIndex + 1

\* results[r.index]: the slot of the results slice a message is stored in
\* (loopIndex is the collection loop's i, which the code does not use here)
ResultSlot(msg, loopIndex) == msg.index + 1

\* one iteration of the collection loop up to the retry loop: r := <-resultChan
Collect ==
  /\ pc = "collect"
  /\ i < chunkCount
  /\ resultChan # << >>
  /\ resultChan' = Tail(resultChan)
  /\ IF Head(resultChan).err
     THEN /\ r' = Head(resultChan)
          /\ retryCount' = 0
          /\ pc' = "retry"
          /\ UNCHANGED <<results, i>>
     ELSE /\ results' = [results EXCEPT ![ResultSlot(Head(resultChan), i)] =
                          Head(resultChan).result]
          /\ i' = i + 1
          /\ UNCHANGED <<r, retryCount, pc>>
  /\ UNCHANGED <<config, chunkCount, worker, tries, chainFailed, produced, slept, ret, sentPrompts,
                 reviewComments>>

\* the prompt of a retry: c.generatePrompt(patches[r.index])
RetryPrompt(idx) == Prompt(idx, FALSE)

\* what the retry loop does after a failed attempt: it sleeps, and gives up
\* after MaxRetries attempts
RetryFailed ==
  /\ slept' = slept + RetrySleepSeconds
  /\ IF retryCount + 1 < MaxRetries
     THEN /\ retryCount' = retryCount + 1
          /\ UNCHANGED <<results, i, r, pc>>
     ELSE /\ results' = [results EXCEPT ![ResultSlot(r, i)] = NeutralResult]
          /\ i' = i + 1
          /\ r' = NoMsg
          /\ retryCount' = 0
          /\ pc' = "collect"

\* one iteration of the retry loop
Retry ==
  /\ pc = "retry"
  /\ \E env \in Envs(config, RetryPrompt(r.index)) :
       LET run == reviewSingleChunk(config, env)
       IN /\ chainFailed' = [chainFailed EXCEPT ![r.index + 1] = AllCallsFailed(run)]
          /\ produced' = [produced EXCEPT ![r.index + 1] = IF run.err THEN @ ELSE Ptr(run.result)]
          /\ tries' = [tries EXCEPT ![r.index + 1] = @ + 1]
          /\ IF ~run.err
             THEN /\ results' = [results EXCEPT ![ResultSlot(r, i)] = run.result]
                  /\ i' = i + 1
                  /\ r' = NoMsg
                  /\ retryCount' = 0
                  /\ pc' = "collect"
                  /\ UNCHANGED slept
             ELSE RetryFailed
  /\ sentPrompts' = sentPrompts \cup {RetryPrompt(r.index)}
  /\ UNCHANGED <<config, chunkCount, worker, resultChan, ret, reviewComments>>

\* after the collection loop: mergeReviewResults(results) is returned
Merge ==
  /\ pc = "collect"
  /\ i = chunkCount
  /\ ret' = [result |-> mergeReviewResults(results), err |-> FALSE, returned |-> TRUE]
  /\ pc' = "returned"
  /\ UNCHANGED <<config, chunkCount, worker, resultChan, results, i, r, retryCount,
                 tries, chainFailed, produced, slept, sentPrompts, reviewComments>>

\* a patch of one chunk: return c.reviewSingleChunk(ctx, prompt)
SingleChunk ==
  /\ pc = "single"
  /\ \E env \in Envs(config, Prompt(0, FALSE)) :
       LET run == reviewSingleChunk(config, env)
       IN /\ ret' = [result |-> run.result, err |-> run.err, returned |-> TRUE]
          /\ chainFailed' = [chainFailed EXCEPT ![1] = AllCallsFailed(run)]
          /\ produced' = [produced EXCEPT ![1] = IF run.err THEN @ ELSE Ptr(run.result)]
  /\ tries' = [tries EXCEPT ![1] = @ + 1]
  /\ sentPrompts' = sentPrompts \cup {Prompt(0, FALSE)}
  /\ pc' = "returned"
  /\ UNCHANGED <<config, chunkCount, worker, resultChan, results, i, r, retryCount,
                 slept, reviewComments>>

\* the per-file comment handlePullRequest builds from a result; the section
\* titles of the source are Chinese and are written here in ASCII
Section(title, str) == IF str # EmptyStr THEN <<title>> \o str \o <<"\n\n">> ELSE EmptyStr

\* the marks of the LGTM header: the cross with "xu yao xiu gai" (changes
\* required, in Chinese) or "Changes Required", the check mark with "dai ma
\* kan qi lai bu cuo" (the code looks good, in Chinese) or "Code Looks Good"
CrossZh == "[x] xu yao xiu gai"

CrossEn == "[x] Changes Required"

CheckZh == "[v] dai ma kan qi lai bu cuo"

CheckEn == "[v] Code Looks Good"

LgtmHeader(mark) == <<"**LGTM: ", mark, "**\n\n">>

\* handlePullRequest of internal/bot/handlers.go
CommentBody(result) ==
  (IF ~result.LGTM THEN LgtmHeader(CrossZh) ELSE LgtmHeader(CheckZh))
  \o Section("## summary\n", result.Summary)
  \o Section("## detailed comments\n", result.ReviewComment)
  \o Section("## suggestions\n", result.Suggestions)
  \o Section("## highlights\n", result.Highlights)
  \o Section("## risks\n", result.Risks)

\* a section title in the configured language
Title(language, english, chinese) == IF language = "english" THEN english ELSE chinese

\* handlePullRequest of the handlers with the indexer (unnamed/part_014): a
\* result without suggestions and risks has its LGTM set to true; the
\* suggestions section is written when there are suggestions or risks
CommentBodyIndexed(language, result) ==
  LET advised == result.Suggestions # EmptyStr \/ result.Risks # EmptyStr
      lgtm == IF advised THEN result.LGTM ELSE TRUE
  IN (IF ~lgtm THEN LgtmHeader(Title(language, CrossEn, CrossZh))
               ELSE LgtmHeader(CheckZh))
     \o Section(Title(language, "## Summary\n", "## summary\n"), result.Summary)
     \o Section(Title(language, "## Review Comment\n", "## detailed comments\n"),
                result.ReviewComment)
     \o (IF advised
         THEN <<Title(language, "## Suggestions\n", "## suggestions\n")>>
              \o result.Suggestions \o <<"\n\n">>
         ELSE EmptyStr)
     \o Section(Title(language, "## Risks\n", "## risks\n"), result.Risks)

\* HandlePullRequestEvent of internal/bot/bot.go: a result without
\* suggestions and risks counts as LGTM; an empty language is Chinese
CommentBodyEvent(language, result) ==
  LET lang == IF language = "" THEN "chinese" ELSE language
      isEmptyResult == result.Suggestions = EmptyStr /\ result.Risks = EmptyStr
  IN (IF ~result.LGTM /\ ~isEmptyResult
      THEN LgtmHeader(Title(lang, CrossEn, CrossZh))
      ELSE LgtmHeader(Title(lang, CheckEn, CheckZh)))
     \o Section(Title(lang, "## Summary\n", "## summary\n"), result.Summary)
     \o Section(Title(lang, "## Detailed Comments\n", "## detailed comments\n"),
                result.ReviewComment)
     \o Section(Title(lang, "## Suggestions\n", "## suggestions\n"), result.Suggestions)
     \o Section(Title(lang, "**Potential Risks**: ", "**risks**: "), result.Risks)

\* the caller of CodeReview in handlePullRequest: on an error the file is
\* skipped (continue), otherwise its comment is appended
ReviewFile ==
  /\ pc = "returned"
  /\ reviewComments' =
       IF ret.err THEN reviewComments
       ELSE Append(reviewComments, [Path |-> "file", Body |-> CommentBody(ret.result)])
  /\ pc' = "done"
  /\ UNCHANGED <<config, chunkCount, worker, resultChan, results, i, r, retryCount,
                 tries, chainFailed, produced, slept, ret, sentPrompts>>

\* -------------------------------------------------- the webhook server
NoHeader == << >>

\* the event header (X-GitHub-Event, X-Gitlab-Event, X-Gitea-Event) of the
\* event main registers a handler for
PullRequestEvent(pf) == IF pf = "gitlab" THEN "Merge Request Hook" ELSE "pull_request"

\* the event headers whose payload HandleWebhook parses
ParsedEvents(pf) ==
  IF pf = "gitlab" THEN {"Merge Request Hook", "Push Hook", "System Hook"}
  ELSE {"pull_request", "push"}

\* the event headers HandleWebhook answers with 200 at once
IgnoredEvent(pf, event) ==
  event \notin ParsedEvents(pf)

EventHeaders(pf) ==
  IF pf = "gitlab" THEN {"Merge Request Hook", "Push Hook", "System Hook", "", "Note Hook"}
  ELSE {"pull_request", "push", "ping", "", "issues"}

\* the actions of the events whose pull request is reviewed
OpenedAction(pf) == IF pf = "gitlab" THEN "open" ELSE "opened"

SynchronizedAction(pf) ==
  CASE pf = "github" -> "synchronize" [] pf = "gitlab" -> "update" [] pf = "gitea" -> "synchronized"

EventActions(pf) == {OpenedAction(pf), SynchronizedAction(pf), "closed"}

\* the payload: ok is FALSE when json.Unmarshal fails; locked is the lock
\* of the pull request (pr.Locked on github; the gitlab and gitea handlers
\* read no such field), wip is mr.WorkInProgress on gitlab
Payload(ok, action, state, locked, wip) ==
  [ok |-> ok, action |-> action, state |-> state, locked |-> locked, wip |-> wip]

Request(headers, body, event, parsed) ==
  [headers |-> headers, Body |-> body, Event |-> event, Parsed |-> parsed]

Headers(sig256, sig, giteaSig, token) ==
  [Signature256 |-> sig256, Signature |-> sig, GiteaSignature |-> giteaSig,
   GitlabToken |-> token]

\* the headers the platform sends for a body when the hook has the secret
Signed(pf, secret, body) ==
  CASE pf = "github" ->
         Headers(Ascii("sha256") \o Ascii("=") \o EncodeToString(Hmac("sha256", secret, body)),
                 Ascii("sha1") \o Ascii("=") \o EncodeToString(Hmac("sha1", secret, body)),
                 NoHeader, NoHeader)
    [] pf = "gitea" ->
         Headers(NoHeader, NoHeader, EncodeToString(Hmac("sha256", secret, body)), NoHeader)
    [] pf = "gitlab" -> Headers(NoHeader, NoHeader, NoHeader, secret)

Unsigned == Headers(NoHeader, NoHeader, NoHeader, NoHeader)

\* the header validatePayload reads on each platform
SignatureHeader(pf) ==
  CASE pf = "github" -> "Signature256"
    [] pf = "gitea" -> "GiteaSignature"
    [] pf = "gitlab" -> "GitlabToken"

FlipBit(byte, b) == IF (byte \div (2 ^ b)) % 2 = 1 THEN byte - 2 ^ b ELSE byte + 2 ^ b

\* the byte strings that differ from `bytes` in exactly one bit
Mutations(bytes) ==
  {[bytes EXCEPT ![n] = FlipBit(@, b)] : n \in 1..Len(bytes), b \in 0..7}

\* validatePayload of the platform's WebhookHandler: TRUE when it returns
\* the payload, FALSE when it returns an error
validatePayload(pf, secret, req) ==
  IF secret = << >> THEN TRUE
  ELSE CASE pf = "github" ->
              LET signature == IF req.headers.Signature256 # NoHeader
                               THEN req.headers.Signature256
                               ELSE req.headers.Signature
              IN IF signature = NoHeader THEN FALSE
                 ELSE ValidateSignature(signature, req.Body, secret)
         [] pf = "gitea" ->
              IF req.headers.GiteaSignature = NoHeader THEN TRUE
              ELSE validateGiteaSignature(secret, req.headers.GiteaSignature, req.Body)
         [] pf = "gitlab" ->
              IF req.headers.GitlabToken = NoHeader THEN TRUE
              ELSE req.headers.GitlabToken = secret

\* the status HandleWebhook writes before it calls any handler, or 0 when
\* it goes on to the handlers of the event
EarlyStatus(pf, secret, req) ==
  IF ~validatePayload(pf, secret, req) THEN 400
  ELSE IF req.Event = "" THEN 400
  ELSE IF IgnoredEvent(pf, req.Event) THEN 200
  ELSE IF ~req.Parsed.ok THEN 400
  ELSE IF req.Event # PullRequestEvent(pf) THEN 200
  ELSE 0

\* HandleWebhook up to the return of the event handler: the handler main
\* registered starts the goroutine and returns nil
HandleWebhook ==
  /\ hpc = "received"
  /\ IF EarlyStatus(platform, webhookSecret, request) # 0
     THEN /\ httpStatus' = EarlyStatus(platform, webhookSecret, request)
          /\ hpc' = "done"
          /\ UNCHANGED <<handlerCalls, gpc>>
     ELSE /\ handlerCalls' = handlerCalls + 1
          /\ gpc' = "spawned"
          /\ hpc' = "handled"
          /\ UNCHANGED httpStatus
  /\ UNCHANGED <<platform, webhookSecret, botConfig, repo, request, outcome,
                 changedFiles, commits, posted, apiFailed, dvars, cvars, mvars, fvars>>

\* (mutant) the response is written when the goroutine has ended
AckReady_afterPipeline == gpc = "done"

\* what w.WriteHeader(http.StatusOK) of HandleWebhook waits for: nothing
AckReady == TRUE

\* the end of HandleWebhook: w.WriteHeader(http.StatusOK)
WriteHeader ==
  /\ hpc = "handled"
  /\ AckReady
  /\ httpStatus' = 200
  /\ hpc' = "done"
  /\ UNCHANGED <<platform, webhookSecret, botConfig, repo, request, handlerCalls, gpc,
                 outcome, changedFiles, commits, posted, apiFailed, dvars, cvars, mvars, fvars>>

\* ------------------------------------------- the event handler's goroutine
\* Handle{GitHub,GitLab,Gitea}PullRequest before handlePullRequest: TRUE when
\* the event is skipped
SkipsEvent(pf, ev) ==
  \/ ev.action \notin {OpenedAction(pf), SynchronizedAction(pf)}
  \/ ev.state = "closed"
  \/ (pf = "github" /\ ev.locked)
  \/ (pf = "gitlab" /\ ev.wip)

\* the base and head SHA the handler passes to handlePullRequest
BaseSHA(pf, rp) == IF pf = "gitlab" THEN rp.oldRev ELSE 0

HeadSHA(pf, rp) == rp.n

HandlePullRequestEvent ==
  /\ gpc = "spawned"
  /\ IF SkipsEvent(platform, request.Parsed)
     THEN gpc' = "done" /\ outcome' = "skipped"
     ELSE gpc' = "compare" /\ UNCHANGED outcome
  /\ UNCHANGED <<platform, webhookSecret, botConfig, repo, request, hpc, httpStatus,
                 handlerCalls, changedFiles, commits, posted, apiFailed, dvars, cvars, mvars, fvars>>

\* b.platform.CompareCommits(ctx, owner, repo, base, head) when the API
\* answers; on gitea "nodiff" is a diff that cannot be fetched
PlatformCompare(pf, rp, base, head, api) ==
  CASE api = "error" -> CompareError
    [] pf = "github" -> GithubCompareCommits(rp.touch, base, head)
    [] pf = "gitlab" -> GitlabCompareCommits(rp.touch, base, head)
    [] pf = "gitea" ->
         IF api = "nodiff" /\ head \in DOMAIN rp.openPRs
         THEN Compared(<< >>, <<head, base>>)
         ELSE GiteaCompareCommits(rp.openPRs, base, head)

ApiOutcomes(pf) == IF pf = "gitea" THEN {"ok", "error", "nodiff"} ELSE {"ok", "error"}

\* the condition of the second comparison
ComparesLatest(pf, action, cs) ==
  action = SynchronizedAction(pf) /\ Len(cs) >= 2

\* handlePullRequest: the comparison of base and head
CompareCommits ==
  /\ gpc = "compare"
  /\ \E api \in ApiOutcomes(platform) :
       LET cmp == PlatformCompare(platform, repo, BaseSHA(platform, repo),
                                  HeadSHA(platform, repo), api)
       IN /\ apiFailed' = (apiFailed \/ api # "ok")
          /\ IF cmp.err
             THEN /\ gpc' = "done"
                  /\ outcome' = "compare failed"
                  /\ UNCHANGED <<changedFiles, commits>>
             ELSE /\ changedFiles' = cmp.files
                  /\ commits' = cmp.commits
                  /\ gpc' = IF ComparesLatest(platform, request.Parsed.action, cmp.commits)
                            THEN "latest" ELSE "review"
                  /\ UNCHANGED outcome
  /\ UNCHANGED <<platform, webhookSecret, botConfig, repo, request, hpc, httpStatus,
                 handlerCalls, posted, dvars, cvars, mvars, fvars>>

\* handlePullRequest: the comparison of the last two commits, whose files
\* replace changedFiles; commits is kept
CompareLatest ==
  /\ gpc = "latest"
  /\ \E api \in ApiOutcomes(platform) :
       LET cmp == PlatformCompare(platform, repo, commits[Len(commits) - 1],
                                  commits[Len(commits)], api)
       IN /\ apiFailed' = (apiFailed \/ api # "ok")
          /\ IF cmp.err
             THEN /\ gpc' = "done"
                  /\ outcome' = "compare failed"
                  /\ UNCHANGED changedFiles
             ELSE /\ changedFiles' = cmp.files
                  /\ gpc' = "review"
                  /\ UNCHANGED outcome
  /\ UNCHANGED <<platform, webhookSecret, botConfig, repo, request, hpc, httpStatus,
                 handlerCalls, commits, posted, dvars, cvars, mvars, fvars>>

\* what b.chat.CodeReview gives for a file
ReviewOutcomes == {"error", "lgtm", "changes"}

\* len(strings.Split(patch, "\n"))
PatchLines(patch) == 1 + Cardinality({n \in 1..Len(patch) : patch[n] = "\n"})

\* the loop over filteredFiles from file k on; outcomes[k] is the outcome of
\* CodeReview for file k
RECURSIVE ReviewLoop(_, _, _, _)
ReviewLoop(files, outcomes, k, comments) ==
  IF k > Len(files) THEN comments
  ELSE IF files[k].Status \notin {"modified", "added"}
       THEN ReviewLoop(files, outcomes, k + 1, comments)
  ELSE IF files[k].Patch = EmptyStr
       THEN ReviewLoop(files, outcomes, k + 1, comments)
  ELSE IF outcomes[k] = "error"
       THEN ReviewLoop(files, outcomes, k + 1, comments)
  ELSE ReviewLoop(files, outcomes, k + 1,
         Append(comments,
                [Path |-> files[k].Filename,
                 Body |-> CommentBody(ModelVerdict(Prompt(0, FALSE), outcomes[k] = "lgtm")),
                 Position |-> PatchLines(files[k].Patch) - 1]))

\* handlePullRequest: filterFiles and the review of each file
ReviewFiles ==
  /\ gpc = "review"
  /\ LET filteredFiles == filterFiles(botConfig, platform, changedFiles)
     IN IF Len(filteredFiles) = 0
        THEN /\ gpc' = "done"
             /\ outcome' = "no files"
             /\ UNCHANGED reviewComments
        ELSE /\ \E outcomes \in [1..Len(filteredFiles) -> ReviewOutcomes] :
                  reviewComments' = ReviewLoop(filteredFiles, outcomes, 1, << >>)
             /\ gpc' = "create"
             /\ UNCHANGED outcome
  /\ UNCHANGED <<platform, webhookSecret, botConfig, repo, request, hpc, httpStatus,
                 handlerCalls, changedFiles, commits, posted, apiFailed, chatvars, cvars, mvars, fvars>>

\* strings.Contains(body, marker), for a marker that is one token
Contains(body, marker) == \E n \in 1..Len(body) : body[n] = marker

\* the test of the summary loop on a comment: its body contains
\* "LGTM: false", "\"lgtm\": false" or the Chinese cross mark
NeedsChanges(comment) ==
  \/ Contains(comment.Body, "LGTM: false")
  \/ Contains(comment.Body, "\"lgtm\": false")
  \/ Contains(comment.Body, CrossZh)

\* the bullet of a file in the summary: the mark, filepath.Base of its path
FileSummary(comment) ==
  <<(IF NeedsChanges(comment) THEN "[X] needs changes: " ELSE "[V] fine: ")>>
  \o comment.Path

\* the body of the review; the texts of the source are Chinese
ReviewBody(comments) ==
  (IF Len(comments) = 0 THEN <<"## review result: no file to review">>
   ELSE IF \A n \in 1..Len(comments) : ~NeedsChanges(comments[n])
        THEN <<"## review passed">>
        ELSE <<"## review found problems">>)
  \o (IF Len(comments) > 0
      THEN <<"\n\n### files:\n">>
           \o Join([n \in 1..Len(comments) |-> FileSummary(comments[n])], <<"\n">>)
      ELSE << >>)
  \o <<"\n\n---\n*generated*">>

\* the comments of a review at the positions in S, from position n on
RECURSIVE Picked(_, _, _)
Picked(comments, S, n) ==
  IF n > Len(comments) THEN << >>
  ELSE (IF n \in S THEN <<comments[n]>> ELSE << >>) \o Picked(comments, S, n + 1)

\* the calls CreateReview makes that can fail one by one: on gitlab a
\* discussion per comment after the note with the body, each failure logged
\* and skipped; github and gitea post body and comments in one call
DiscussionFailures(pf, comments) ==
  IF pf = "gitlab" THEN SUBSET (1..Len(comments)) ELSE {{}}

\* handlePullRequest: b.platform.CreateReview with the last commit of
\* commits; an error of the adapter is wrapped and returned
CreateReview ==
  /\ gpc = "create"
  /\ \E api \in {"ok", "error"} :
       IF api = "error"
       THEN outcome' = "create failed" /\ UNCHANGED posted
       ELSE \E failed \in DiscussionFailures(platform, reviewComments) :
              /\ posted' = Append(posted,
                   [CommitID |-> commits[Len(commits)],
                    Comments |-> Picked(reviewComments, (1..Len(reviewComments)) \ failed, 1),
                    Rejected |-> Picked(reviewComments, failed, 1),
                    Body |-> ReviewBody(reviewComments)])
              /\ outcome' = "reviewed"
  /\ gpc' = "done"
  /\ apiFailed' = (apiFailed \/ outcome' = "create failed"
                            \/ (outcome' = "reviewed" /\ posted'[Len(posted')].Rejected # << >>))
  /\ UNCHANGED <<platform, webhookSecret, botConfig, repo, request, hpc, httpStatus,
                 handlerCalls, changedFiles, commits, dvars, cvars, mvars, fvars>>

\* the dispatcher at rest
IdleCodeReview ==
  /\ chunkCount = 0
  /\ pc = "idle"
  /\ worker = << >>
  /\ resultChan = << >>
  /\ results = << >>
  /\ i = 0
  /\ r = NoMsg
  /\ retryCount = 0
  /\ tries = << >>
  /\ chainFailed = << >>
  /\ produced = << >>
  /\ slept = 0
  /\ ret = NoReturn
  /\ sentPrompts = {}
  /\ reviewComments = << >>

IdleConfig ==
  [IsClaudeEnabled |-> FALSE, IsDeepseekEnabled |-> FALSE,
   IsDirectLLM |-> FALSE, HasOpenAIKey |-> TRUE]

IdleChain == answers = << >> /\ chainRun = Nil

IdleMerge == mergeInput = << >> /\ mergeOutput = Nil

IdleBuild == commentCase = << >> /\ fileReview = Nil

IdleCancel == cancelCase = << >> /\ ctxDone = FALSE /\ handling = << >>

IdleFilter == filterCase = << >> /\ filtered = Nil

IdleCall == args = << >> /\ returned = Nil /\ stored = << >>

IdleHandlers == IdleBuild /\ IdleCancel /\ IdleFilter

IdleComment == IdleHandlers /\ IdleCall

\* ------------------------------------------- one call of reviewSingleChunk
InitChain ==
  /\ config \in {c \in Configs : NewChatOK(c)}
  /\ answers \in {[p \in EnabledSet(config) |-> Answer(p, kinds[p])] :
                    kinds \in [EnabledSet(config) -> AnswerKinds]}
  /\ chainRun = Nil

ReviewChunk ==
  /\ chainRun.isNil
  /\ answers # << >>
  /\ chainRun' = Ptr(reviewSingleChunk(config, answers))
  /\ UNCHANGED <<answers, dvars, mvars, fvars, svars>>

\* ------------------------------------------ one call of mergeReviewResults
InitMerge ==
  /\ mergeInput \in SeqsUpTo(SampleResults, MaxMerge)
  /\ mergeOutput = Nil

MergeResults ==
  /\ mergeOutput.isNil
  /\ mergeOutput' = Ptr(mergeReviewResults(mergeInput))
  /\ UNCHANGED <<mergeInput, dvars, cvars, fvars, svars>>

\* ------------------------------------- the comment and the bullet of a file
\* the three places that build a file's comment: handlePullRequest of
\* internal/bot/handlers.go, handlePullRequest of the handlers with the
\* indexer (unnamed/part_014), HandlePullRequestEvent of internal/bot/bot.go
CommentSources == {"handlers.go", "part_014", "bot.go"}

\* strings.ToLower(b.config.Language)
Languages == {"chinese", "english"}

\* the verdicts of the model: the review comment may quote a verdict
CommentVerdicts ==
  {ReviewResult(l, c, <<"summary">>, sg, EmptyStr, k) :
     l \in BOOLEAN,
     c \in {EmptyStr, <<"plain">>, <<"the test prints ", "LGTM: false">>,
            <<"the reply was ", "\"lgtm\": false">>, <<"the bot said ", CrossZh>>},
     sg \in {EmptyStr, <<"fix it">>},
     k \in {EmptyStr, <<"risk">>}}

\* the only provider configured is p
OnlyProvider(p) ==
  [IsClaudeEnabled |-> p = "Claude", IsDeepseekEnabled |-> p = "Deepseek",
   IsDirectLLM |-> p = "DirectLLM", HasOpenAIKey |-> p = "OpenAI"]

\* the provider's exchange: the verdict as a JSON object, the object
\* wrapped as {"value": {...}}, or a server error
ModelAnswer(case) ==
  CASE case.answer = "plain" ->
         HttpResponse(TRUE, 200, 1, JsonContent(FALSE, VerdictObj(case.verdict)))
    [] case.answer = "wrapped" ->
         HttpResponse(TRUE, 200, 1, Wrapped("value", case.verdict))
    [] case.answer = "http500" -> HttpResponse(TRUE, 500, 0, EmptyContent)

CommentCases ==
  [source : CommentSources, language : Languages, provider : ProviderSet,
   answer : {"plain", "wrapped", "http500"}, verdict : CommentVerdicts]

InitComment ==
  /\ commentCase \in CommentCases
  /\ fileReview = Nil

\* the body of the loop over the files for one file, main.go, whose patch is
\* one chunk, and the review body: b.chat.CodeReview, on an error `continue`,
\* else the comment; then the summary of the comments
BuildComment ==
  /\ fileReview.isNil
  /\ commentCase # << >>
  /\ LET run == reviewSingleChunk(OnlyProvider(commentCase.provider),
                                  [q \in {commentCase.provider} |-> ModelAnswer(commentCase)])
         body == CASE commentCase.source = "handlers.go" -> CommentBody(run.result)
                   [] commentCase.source = "part_014" ->
                        CommentBodyIndexed(commentCase.language, run.result)
                   [] commentCase.source = "bot.go" ->
                        CommentBodyEvent(commentCase.language, run.result)
         comments == IF run.err THEN << >>
                     ELSE <<[Path |-> MainGo.Filename, Body |-> body, Position |-> 0]>>
     IN fileReview' =
          Ptr([result |-> run.result, err |-> run.err, comments |-> comments,
               body |-> IF commentCase.source = "bot.go"
                        THEN (IF Len(comments) > 0 THEN <<"Code review by ChatGPT">>
                                                   ELSE <<"LGTM">>)
                        ELSE ReviewBody(comments)])
  /\ UNCHANGED <<commentCase, kvars, pvars, tvars, dvars, cvars, mvars, svars>>

\* ------------------------------------- a handler call under a context
\* the calls of handlePullRequest from the loop over the files on: the
\* adapter, the one provider of the chat, and the filtered files
CancelCases ==
  [platform : Platforms, provider : {"Claude", "OpenAI"},
   files : {<<MainGo>>, <<ReadmeMd>>, <<MainGo, ReadmeMd>>, <<ReadmeMd, MainGo>>}]

InitCancel ==
  /\ cancelCase \in CancelCases
  /\ ctxDone = FALSE
  /\ handling = [pc |-> "loop", k |-> 1, reviewComments |-> << >>, cancelledAt |-> 0,
                 posted |-> << >>, err |-> FALSE]

\* the caller cancels the context while handlePullRequest runs; cancelledAt
\* is the file the loop was at
CancelContext ==
  /\ cancelCase # << >>
  /\ ~ctxDone
  /\ handling.pc \in {"loop", "create"}
  /\ ctxDone' = TRUE
  /\ handling' = [handling EXCEPT !.cancelledAt = handling.k]
  /\ UNCHANGED <<cancelCase, commentCase, fileReview, pvars, tvars, dvars, cvars, mvars,
                 svars>>

\* one turn of the loop over the files: b.chat.CodeReview(ctx, patch) for a
\* patch of one chunk, `continue` on an error, else the comment is appended.
\* A request under a cancelled context fails in the client.
ReviewNextFile ==
  /\ cancelCase # << >>
  /\ handling.pc = "loop"
  /\ \E kind \in {"lgtm", "changes", "http500"} :
       LET file == cancelCase.files[handling.k]
           resp == IF ctxDone THEN Answer(cancelCase.provider, "neterr")
                   ELSE Answer(cancelCase.provider, kind)
           run == reviewSingleChunk(OnlyProvider(cancelCase.provider),
                                    [q \in {cancelCase.provider} |-> resp])
           comments == IF run.err THEN handling.reviewComments
                       ELSE Append(handling.reviewComments,
                                   [Path |-> file.Filename, Body |-> CommentBody(run.result),
                                    Position |-> PatchLines(file.Patch) - 1])
       IN handling' = [handling EXCEPT
                         !.reviewComments = comments,
                         !.k = handling.k + 1,
                         !.pc = IF handling.k = Len(cancelCase.files) THEN "create" ELSE "loop"]
  /\ UNCHANGED <<cancelCase, ctxDone, commentCase, fileReview, pvars, tvars, dvars, cvars, mvars,
                 svars>>

\* the adapter's CreateReview passes ctx to its client
PassesContext(pf) == pf = "github"

\* b.platform.CreateReview(ctx, ...): the github adapter hands ctx to its
\* client, whose request fails under a cancelled context; the gitlab and
\* gitea adapters call their clients without it
PostReview ==
  /\ cancelCase # << >>
  /\ handling.pc = "create"
  /\ \E api \in {"ok", "error"} :
       IF api = "error" \/ (ctxDone /\ PassesContext(cancelCase.platform))
       THEN handling' = [handling EXCEPT !.pc = "done", !.err = TRUE]
       ELSE handling' = [handling EXCEPT
                           !.pc = "done",
                           !.posted = Append(handling.posted,
                                             [Comments |-> handling.reviewComments,
                                              Body |-> ReviewBody(handling.reviewComments)])]
  /\ UNCHANGED <<cancelCase, ctxDone, commentCase, fileReview, pvars, tvars, dvars, cvars, mvars,
                 svars>>

NextCancel == CancelContext \/ ReviewNextFile \/ PostReview

\* ------------------------------------------------- one call of filterFiles
\* the files of a comparison with directories: x/y and a/x/y, and a file
\* whose name has a "%"
XY ==
  [Filename |-> <<"x", "/", "y">>, Ext |-> "", Status |-> "modified",
   Patch |-> <<"@@ ", "y">>]

AXY ==
  [Filename |-> <<"a", "/", "x", "/", "y">>, Ext |-> "", Status |-> "modified",
   Patch |-> <<"@@ ", "y">>]

PercentGo == File("100%", "go", "added", TRUE)

FilterFiles == {MainGo, ReadmeMd, XY, AXY, PercentGo}

\* the lists of up to MaxFiles distinct files
FileLists ==
  UNION {{fs \in [1..m -> FilterFiles] : \A a, b \in 1..m : a # b => fs[a] # fs[b]} :
           m \in 0..MaxFiles}

\* b.config as LoadConfig makes it: the entries are trimmed and not empty
FilterConfigs ==
  [IgnoreList : {<< >>, <<MainGo.Filename>>},
   IncludePatterns : {<< >>, <<StarGo>>, <<SlashX>>, <<SlashX, StarGo>>},
   IgnorePatterns : {<< >>, <<StarMd>>, <<SlashX>>},
   TargetLabel : {""}]

FilterCases == [platform : Platforms, config : FilterConfigs, files : FileLists]

InitFilter ==
  /\ filterCase \in FilterCases
  /\ filtered = Nil

\* filteredFiles := b.filterFiles(changedFiles)
ApplyFilter ==
  /\ filterCase # << >>
  /\ filtered.isNil
  /\ filtered' = Ptr(filterFiles(filterCase.config, filterCase.platform, filterCase.files))
  /\ UNCHANGED <<filterCase, commentCase, fileReview, kvars, tvars, dvars, cvars, mvars, svars>>

\* ------------------------------------------------- one call of splitPatch
\* a patch is a sequence of pieces: the marker "diff --git", the newline,
\* and text that holds neither
Marker == "diff --git"

Newline == "\n"

Pieces == {Marker, Newline, "a", "abcd"}

\* len(text), in bytes
RECURSIVE ByteLen(_)
ByteLen(text) ==
  IF text = << >> THEN 0
  ELSE (CASE Head(text) = Marker -> 10
          [] Head(text) = Newline -> 1
          [] Head(text) = "a" -> 1
          [] Head(text) = "abcd" -> 4) + ByteLen(Tail(text))

\* estimateTokenCount: len(text) / 4
estimateTokenCount(text) == ByteLen(text) \div 4

\* strings.Split(text, sep) for a separator that is one piece
RECURSIVE Split(_, _)
Split(text, sep) ==
  IF \A n \in 1..Len(text) : text[n] # sep THEN <<text>>
  ELSE LET k == CHOOSE n \in 1..Len(text) :
                  text[n] = sep /\ \A m \in 1..(n - 1) : text[m] # sep
       IN <<SubSeq(text, 1, k - 1)>> \o Split(SubSeq(text, k + 1, Len(text)), sep)

\* splitPatch: the files of the patch, the first element dropped when it is
\* empty and the marker put back in front of the others
PatchFiles(patch) ==
  LET parts == Split(patch, Marker)
      files == IF Len(parts) > 0 /\ parts[1] = << >> THEN Tail(parts) ELSE parts
  IN [n \in 1..Len(files) |->
        IF n > 1 \/ (n = 1 /\ Len(files[1]) > 0) THEN <<Marker>> \o files[n] ELSE files[n]]

\* splitPatch: the loop over the lines of a file larger than maxTokens,
\* from line k on
RECURSIVE SplitLines(_, _, _, _, _, _)
SplitLines(lines, k, maxTokens, result, tempChunk, tempTokens) ==
  IF k > Len(lines)
  THEN (IF tempChunk # << >> THEN Append(result, tempChunk) ELSE result)
  ELSE LET line == lines[k] \o <<Newline>>
           lineTokens == estimateTokenCount(line)
       IN IF tempTokens + lineTokens > maxTokens
          THEN SplitLines(lines, k + 1, maxTokens, Append(result, tempChunk), line, lineTokens)
          ELSE SplitLines(lines, k + 1, maxTokens, result, tempChunk \o line,
                          tempTokens + lineTokens)

\* splitPatch: the loop over the files, from file k on
RECURSIVE PackFiles(_, _, _, _, _, _)
PackFiles(files, k, maxTokens, result, currentChunk, currentTokens) ==
  IF k > Len(files)
  THEN (IF currentChunk # << >> THEN Append(result, currentChunk) ELSE result)
  ELSE LET file == files[k]
           fileTokens == estimateTokenCount(file)
       IN IF fileTokens > maxTokens
          THEN PackFiles(files, k + 1, maxTokens,
                         SplitLines(Split(file, Newline), 1, maxTokens,
                                    IF currentChunk # << >> THEN Append(result, currentChunk)
                                    ELSE result,
                                    << >>, 0),
                         IF currentChunk # << >> THEN << >> ELSE currentChunk,
                         IF currentChunk # << >> THEN 0 ELSE currentTokens)
          ELSE IF currentTokens + fileTokens > maxTokens
          THEN PackFiles(files, k + 1, maxTokens, Append(result, currentChunk), file, fileTokens)
          ELSE PackFiles(files, k + 1, maxTokens, result, currentChunk \o file,
                         currentTokens + fileTokens)

\* splitPatch without the early return for a small patch
splitPatch_alwaysPacks(patch, maxTokens) ==
  PackFiles(PatchFiles(patch), 1, maxTokens, << >>, << >>, 0)

\* func splitPatch(patch string, maxTokens int) []string
splitPatch(patch, maxTokens) ==
  IF estimateTokenCount(patch) <= maxTokens THEN <<patch>>
  ELSE PackFiles(PatchFiles(patch), 1, maxTokens, << >>, << >>, 0)

\* the patches of up to MaxPatchLen pieces
Patches == UNION {[1..m -> Pieces] : m \in 0..MaxPatchLen}

SplitCases == [fn : {"splitPatch"}, patch : Patches, maxTokens : 1..MaxTokens]

InitSplit ==
  /\ args \in SplitCases
  /\ returned = Nil
  /\ stored = << >>

\* patches := splitPatch(patch, maxTokens)
SplitPatch ==
  /\ args # << >>
  /\ args.fn = "splitPatch"
  /\ returned.isNil
  /\ returned' = Ptr(splitPatch(args.patch, args.maxTokens))
  /\ UNCHANGED <<args, stored, commentCase, fileReview, kvars, pvars, dvars, cvars, mvars, svars>>

\* ------------------------------------------------ one webhook request
\* the secret of the hook, when one is configured: "M"
Secret == <<77>>

\* the bodies a platform sends: "{}" and "{a}" stand for the JSON documents
Payloads == {<<123, 125>>, <<123, 97, 125>>}

\* the pull requests: with n commits, each touching some files; oldRev is
\* the head before the push (gitlab); labels are the labels attached; on
\* gitea the open pull requests, this one and possibly one whose head is
\* this one's base commit
Repo(pf, touch, old, stacked) ==
  [n |-> Len(touch), touch |-> touch, oldRev |-> old, labels |-> {},
   openPRs |-> IF pf # "gitea" THEN << >>
               ELSE [h \in (IF stacked THEN {0, Len(touch)} ELSE {Len(touch)}) |->
                       IF h = Len(touch)
                       THEN [base |-> 0, files |-> Changed(touch, 0, Len(touch))]
                       ELSE [base |-> -1, files |-> {MainGo}]]]

Repos(pf) ==
  UNION {{Repo(pf, touch, old, stacked) :
            old \in (IF pf = "gitlab" THEN 0..(Len(touch) - 1) ELSE {0}),
            stacked \in (IF pf = "gitea" THEN BOOLEAN ELSE {FALSE})} :
         touch \in UNION {[1..m -> Touches] : m \in 1..MaxCommits}}

SimpleRepo(pf) == Repo(pf, <<{MainGo}>>, 0, FALSE)

SimpleBotConfig == CHOOSE cfg \in BotConfigs : cfg.IncludePatterns = << >>

OpenedPayload(pf) == Payload(TRUE, OpenedAction(pf), "open", FALSE, FALSE)

Scenario(pf, secret, cfg, rp, req) ==
  [platform |-> pf, secret |-> secret, botConfig |-> cfg, repo |-> rp, request |-> req]

\* what the payload of a pull request event may decode to
PullRequestPayloads(pf) ==
  {Payload(FALSE, "", "", FALSE, FALSE)}
  \cup {Payload(TRUE, a, st, lk, wip) :
          a \in EventActions(pf), st \in {"open", "closed"}, lk \in BOOLEAN,
          wip \in (IF pf = "gitlab" THEN BOOLEAN ELSE {FALSE})}

\* the headers of a request the platform signed, or that nobody signed
SentHeaders(pf, secret, body) ==
  IF secret = << >> THEN {Unsigned}
  ELSE {Unsigned, Signed(pf, secret, body)}
       \cup (IF pf = "github"
             THEN {[Signed(pf, secret, body) EXCEPT !.Signature256 = NoHeader]}
             ELSE {})

\* the events the handlers review
ReviewedPayloads(pf) ==
  {Payload(TRUE, a, "open", FALSE, FALSE) : a \in {OpenedAction(pf), SynchronizedAction(pf)}}

\* the requests for the reviewed events, for every pull request and filter
ReviewedScenarios ==
  UNION {{Scenario(pf, << >>, cfg, rp,
                   Request(Unsigned, <<123, 125>>, PullRequestEvent(pf), ev)) :
            cfg \in BotConfigs, rp \in Repos(pf), ev \in ReviewedPayloads(pf)} :
         pf \in Platforms}

\* the requests for pull request events, signed or not, with or without a
\* secret on the server
PullRequestScenarios ==
  UNION {{Scenario(pf, sec, SimpleBotConfig, SimpleRepo(pf),
                   Request(hd, <<123, 125>>, PullRequestEvent(pf), ev)) :
            hd \in SentHeaders(pf, sec, <<123, 125>>), ev \in PullRequestPayloads(pf)} :
         pf \in Platforms, sec \in {<< >>, Secret}}

\* the label the bot may be configured to require
NeedsReview == "needs-review"

\* the requests for an opened pull request, with and without the label, to
\* a bot with and without a target label
LabelScenarios ==
  UNION {{Scenario(pf, << >>, [SimpleBotConfig EXCEPT !.TargetLabel = label],
                   [SimpleRepo(pf) EXCEPT !.labels = labels],
                   Request(Unsigned, <<123, 125>>, PullRequestEvent(pf), OpenedPayload(pf))) :
            label \in {"", NeedsReview}, labels \in {{}, {NeedsReview}, {"bug"}}} :
         pf \in Platforms}

\* the requests for the other events
OtherEventScenarios ==
  UNION {{Scenario(pf, Secret, SimpleBotConfig, SimpleRepo(pf),
                   Request(Signed(pf, Secret, <<123, 125>>), <<123, 125>>, event,
                           Payload(ok, "", "", FALSE, FALSE))) :
            ok \in BOOLEAN, event \in EventHeaders(pf) \ {PullRequestEvent(pf)}} :
         pf \in Platforms}

\* the signed headers with one bit flipped in a signature header
MutatedHeaders(pf, body) ==
  LET signed == Signed(pf, Secret, body)
  IN {[signed EXCEPT ![SignatureHeader(pf)] = m] : m \in Mutations(signed[SignatureHeader(pf)])}
     \cup (IF pf = "github"
           THEN {[signed EXCEPT !.Signature = m] : m \in Mutations(signed.Signature)}
                \cup {[signed EXCEPT !.Signature = m, !.Signature256 = NoHeader] :
                        m \in Mutations(signed.Signature)}
           ELSE {})

\* the signed requests with one bit flipped, in a signature header or in
\* the body
MutatedScenarios ==
  UNION {{Scenario(pf, Secret, SimpleBotConfig, SimpleRepo(pf),
                   Request(hd, b, PullRequestEvent(pf), OpenedPayload(pf))) :
            hd \in MutatedHeaders(pf, b)}
         \cup {Scenario(pf, Secret, SimpleBotConfig, SimpleRepo(pf),
                         Request(Signed(pf, Secret, b), body, PullRequestEvent(pf),
                                 OpenedPayload(pf))) :
                  body \in Mutations(b) \cup {b}} :
         pf \in Platforms, b \in Payloads}

Scenarios ==
  ReviewedScenarios \cup PullRequestScenarios \cup LabelScenarios
  \cup OtherEventScenarios \cup MutatedScenarios

InitServer ==
  /\ \E sc \in Scenarios :
       /\ platform = sc.platform
       /\ webhookSecret = sc.secret
       /\ botConfig = sc.botConfig
       /\ repo = sc.repo
       /\ request = sc.request
  /\ hpc = "received"
  /\ httpStatus = 0
  /\ handlerCalls = 0
  /\ gpc = "none"
  /\ outcome = ""
  /\ changedFiles = << >>
  /\ commits = << >>
  /\ posted = << >>
  /\ apiFailed = FALSE

IdleServer ==
  /\ platform = "github"
  /\ webhookSecret = << >>
  /\ botConfig = SimpleBotConfig
  /\ repo = SimpleRepo("github")
  /\ request = Request(Unsigned, << >>, "", Payload(FALSE, "", "", FALSE, FALSE))
  /\ hpc = "idle"
  /\ httpStatus = 0
  /\ handlerCalls = 0
  /\ gpc = "none"
  /\ outcome = ""
  /\ changedFiles = << >>
  /\ commits = << >>
  /\ posted = << >>
  /\ apiFailed = FALSE

NextServer ==
  \/ HandleWebhook
  \/ WriteHeader
  \/ HandlePullRequestEvent
  \/ CompareCommits
  \/ CompareLatest
  \/ ReviewFiles
  \/ CreateReview

Init == InitCodeReview /\ IdleChain /\ IdleMerge /\ IdleComment /\ IdleServer

Next ==
  \/ StartCodeReview /\ UNCHANGED <<cvars, mvars, fvars, svars>>
  \/ \E idx \in DOMAIN worker : Worker(idx) /\ UNCHANGED <<cvars, mvars, fvars, svars>>
  \/ Collect /\ UNCHANGED <<cvars, mvars, fvars, svars>>
  \/ Retry /\ UNCHANGED <<cvars, mvars, fvars, svars>>
  \/ Merge /\ UNCHANGED <<cvars, mvars, fvars, svars>>
  \/ SingleChunk /\ UNCHANGED <<cvars, mvars, fvars, svars>>
  \/ ReviewFile /\ UNCHANGED <<cvars, mvars, fvars, svars>>

Spec == Init /\ [][Next]_vars

InitChainSpec == InitChain /\ IdleCodeReview /\ IdleMerge /\ IdleComment /\ IdleServer

SpecChain == InitChainSpec /\ [][ReviewChunk]_vars

InitMergeSpec ==
  InitMerge /\ config = IdleConfig /\ IdleCodeReview /\ IdleChain /\ IdleComment /\ IdleServer

SpecMerge == InitMergeSpec /\ [][MergeResults]_vars

InitServerSpec ==
  InitServer /\ config = IdleConfig /\ IdleCodeReview /\ IdleChain /\ IdleMerge /\ IdleComment

SpecServer == InitServerSpec /\ [][NextServer]_vars

InitCancelSpec ==
  InitCancel /\ config = IdleConfig /\ IdleCodeReview /\ IdleChain /\ IdleMerge /\ IdleBuild
  /\ IdleFilter /\ IdleCall /\ IdleServer

InitFilterSpec ==
  InitFilter /\ config = IdleConfig /\ IdleCodeReview /\ IdleChain /\ IdleMerge /\ IdleBuild
  /\ IdleCancel /\ IdleCall /\ IdleServer

SpecFilter == InitFilterSpec /\ [][ApplyFilter]_vars

SpecCancel == InitCancelSpec /\ [][NextCancel]_vars

InitSplitSpec ==
  InitSplit /\ config = IdleConfig /\ IdleCodeReview /\ IdleChain /\ IdleMerge /\ IdleHandlers
  /\ IdleServer

SpecSplit == InitSplitSpec /\ [][SplitPatch]_vars

\* everything but args and returned, which a call of one function leaves alone
others == <<commentCase, fileReview, kvars, pvars, dvars, cvars, mvars, svars>>

IdleOthers ==
  config = IdleConfig /\ IdleCodeReview /\ IdleChain /\ IdleMerge /\ IdleHandlers
  /\ IdleServer

\* ------------------------------------------------- one call of QueryContext
\* A patch is the words wordRegex finds in it once comments and string
\* literals are removed; the empty patch has none, and "x" stands for a patch
\* such as "-x := 1\n+x := 2" whose words are all short or common.
Words == {"Alpha", "alpha", "beta", "return", "x"}

WordLen(word) ==
  CASE word \in {"Alpha", "alpha"} -> 5
    [] word = "beta" -> 4
    [] word = "return" -> 6
    [] OTHER -> 1

commonKeywords == {"return"}

ToLower(word) == IF word = "Alpha" THEN "alpha" ELSE word

MaxKeywords == 10

Orders(set) ==
  {order \in [1..Cardinality(set) -> set] :
     \A k, j \in 1..Cardinality(set) : order[k] = order[j] => k = j}

\* the words kept, lower-cased, in the order the map happens to be ranged
\* over, cut to maxKeywords: every slice extractKeywords can return
extractKeywords(code) ==
  LET uniqueWords ==
        {ToLower(code[k]) : k \in {j \in 1..Len(code) :
           ~(WordLen(code[j]) <= 2 \/ code[j] \in commonKeywords)}}
  IN {IF Len(keywords) > MaxKeywords THEN SubSeq(keywords, 1, MaxKeywords) ELSE keywords :
        keywords \in Orders(uniqueWords)}

\* the collection: an import statement and three chunks of code, two of them
\* indexed under the same file and lines
DocFilename(id) == IF id = "d2" THEN "b.go" ELSE "a.go"

DocLineEnd(id) == IF id = "d2" THEN 3 ELSE 5

DocSymbolName(id) == IF id = "d1" THEN "Alpha" ELSE ""

AllDocuments == <<"i1", "d1", "d2", "d3">>

\* what the store ranks first for one query text, and for the embedding
TextRow(text) ==
  CASE text = "alpha" -> <<"d1", "d3">>
    [] text = "beta" -> <<"d3", "d2">>
    [] text = "function" -> <<"d1", "d2">>
    [] OTHER -> << >>

EmbeddingRow == <<"d2", "d1">>

\* the rows of a well-formed answer: one per query text where the store ranks
\* by the texts, one for the embedding otherwise
StoreRows(queryTexts, resp) ==
  IF resp.honoursTexts /\ queryTexts # << >>
    THEN [k \in 1..Len(queryTexts) |-> TextRow(queryTexts[k])]
    ELSE <<EmbeddingRow>>

\* the j-th result of a row lies at distance j/10, in thousandths
Distance(j) == j * 100

\* the "ids" array of the answer as the client decodes it
IdsArray(rows, shape) ==
  CASE shape = "rows" -> [k \in 1..Len(rows) |-> [isArray |-> TRUE, items |-> rows[k]]]
    [] shape = "extraRow" ->
         [k \in 1..Len(rows) + 1 |->
            [isArray |-> TRUE, items |-> IF k <= Len(rows) THEN rows[k] ELSE << >>]]
    [] shape = "rowNotArray" -> [k \in 1..Len(rows) |-> [isArray |-> FALSE, items |-> << >>]]
    [] OTHER -> << >>

ListLen(rows, shape) == IF shape = "extraRow" THEN Len(rows) + 1 ELSE Len(rows)

QueryFailed == [panic |-> FALSE, err |-> TRUE, ids |-> << >>, scores |-> << >>]

QueryPanicked == [panic |-> TRUE, err |-> FALSE, ids |-> << >>, scores |-> << >>]

\* RealChromaClient.QueryDocuments on n query texts, against a store whose
\* well-formed answer has the given rows; the slices it fills have n rows
QueryDocuments(n, rows, resp) ==
  LET idsArray == IdsArray(rows, resp.ids)
      ids == [k \in 1..n |->
                IF k <= Len(idsArray) /\ idsArray[k].isArray THEN idsArray[k].items ELSE << >>]
      scores == [k \in 1..n |->
                   IF resp.distances = "missing"
                     THEN [j \in 1..Len(ids[k]) |-> 1000 - (j - 1) * 100]
                     ELSE IF k <= Len(rows)
                       THEN [j \in 1..Len(rows[k]) |-> 1000 - Distance(j)]
                       ELSE << >>]
  IN IF resp.kind # "ok" THEN QueryFailed
     ELSE IF resp.ids \in {"missing", "notArray"} THEN QueryFailed
     ELSE IF \E k \in 1..Len(idsArray) : idsArray[k].isArray /\ k > n THEN QueryPanicked
     ELSE IF resp.metadatas = "notArray" THEN QueryFailed
     ELSE IF resp.metadatas # "missing" /\ ListLen(rows, resp.metadatas) > n THEN QueryPanicked
     ELSE IF resp.distances = "notArray" THEN QueryFailed
     ELSE IF resp.distances # "missing" /\ ListLen(rows, resp.distances) > n THEN QueryPanicked
     ELSE IF n = 0 THEN QueryPanicked
     ELSE [panic |-> FALSE, err |-> FALSE, ids |-> ids, scores |-> scores]

\* RealChromaClient.GetDocuments: the documents asked for, all of them when
\* none is named, or one more than asked for
GetDocuments(ids, answer) ==
  LET asked == IF ids = << >> THEN AllDocuments ELSE ids
  IN [err |-> answer = "error",
      documents |-> CASE answer = "error" -> << >>
                      [] answer = "more" -> Append(asked, "d3")
                      [] OTHER -> asked]

getCollectionID(call) == [err |-> call.storage # "chroma" \/ call.collection = "error"]

queryImports(call) ==
  IF getCollectionID(call).err THEN {}
  ELSE LET got == GetDocuments(<< >>, call.documents)
       IN IF got.err THEN {}
          ELSE {<<"fmt", got.documents[k]>> :
                  k \in {j \in 1..Len(got.documents) : got.documents[j] = "i1"}}

DefinitionTexts == <<"function", "type", "struct", "interface", "const", "var">>

Put(definitions, key, doc) == {d \in definitions : d[1] # key} \cup {<<key, doc>>}

RECURSIVE DefinitionsLoop(_, _, _, _)
DefinitionsLoop(documents, ids, k, definitions) ==
  IF k > Len(documents) THEN [panic |-> FALSE, err |-> FALSE, definitions |-> definitions]
  ELSE IF DocSymbolName(documents[k]) # ""
    THEN DefinitionsLoop(documents, ids, k + 1,
                         Put(definitions, DocSymbolName(documents[k]), documents[k]))
  ELSE IF k > Len(ids) THEN [panic |-> TRUE, err |-> FALSE, definitions |-> {}]
  ELSE DefinitionsLoop(documents, ids, k + 1, Put(definitions, ids[k], documents[k]))

queryDefinitions(call) ==
  LET none == [panic |-> FALSE, err |-> FALSE, definitions |-> {}]
      found == QueryDocuments(Len(DefinitionTexts), StoreRows(DefinitionTexts, call.resp),
                              call.resp)
      got == GetDocuments(found.ids[1], call.documents)
  IN IF getCollectionID(call).err THEN none
     ELSE IF found.panic THEN [none EXCEPT !.panic = TRUE]
     ELSE IF found.err THEN none
     ELSE IF Len(found.ids) > 0 /\ Len(found.ids[1]) > 0
       THEN IF got.err THEN [none EXCEPT !.err = TRUE]
            ELSE DefinitionsLoop(got.documents, found.ids[1], 1, {})
     ELSE none

docKey(id) == <<DocFilename(id), 1, DocLineEnd(id)>>

\* similarity is 1 minus what QueryDocuments returned, which is already
\* 1 minus the distance, less a thousandth for every place in the row
RECURSIVE SimilarLoop(_, _, _, _, _)
SimilarLoop(documents, distances, k, addedDocs, similarCode) ==
  IF k > Len(documents) THEN similarCode
  ELSE IF docKey(documents[k]) \in addedDocs
    THEN SimilarLoop(documents, distances, k + 1, addedDocs, similarCode)
  ELSE LET near == IF 1000 - distances[1][k] < 0 THEN 0 ELSE 1000 - distances[1][k]
           similarity == IF Len(distances) > 0 /\ k <= Len(distances[1])
                           THEN near - (k - 1) ELSE 0
       IN SimilarLoop(documents, distances, k + 1, addedDocs \cup {docKey(documents[k])},
                      Append(similarCode,
                             [Filename |-> DocFilename(documents[k]),
                              Content |-> documents[k],
                              Similarity |-> similarity]))

querySimilarCode(call, keywords) ==
  LET none == [panic |-> FALSE, err |-> FALSE, similarCode |-> << >>]
      embedded == QueryDocuments(1, <<EmbeddingRow>>, call.resp)
      useVectorSearch == call.vector = "ok" /\ ~embedded.err
      byText == QueryDocuments(Len(keywords), StoreRows(keywords, call.resp), call.resp)
      found == IF useVectorSearch THEN embedded ELSE byText
      got == GetDocuments(found.ids[1], call.documents)
  IN IF call.vector = "none" THEN none
     ELSE IF call.storage # "chroma" THEN none
     ELSE IF getCollectionID(call).err THEN none
     ELSE IF call.vector = "ok" /\ embedded.panic THEN [none EXCEPT !.panic = TRUE]
     ELSE IF found.panic THEN [none EXCEPT !.panic = TRUE]
     ELSE IF found.err THEN none
     ELSE IF Len(found.ids) = 0 \/ Len(found.ids[1]) = 0 THEN none
     ELSE IF got.err THEN [none EXCEPT !.err = TRUE]
     ELSE [none EXCEPT !.similarCode = SimilarLoop(got.documents, found.scores, 1, {}, << >>)]

\* sort.Slice by falling Similarity; it is not stable, so equal snippets may
\* come out in either order
sortSlice(similarCode) ==
  {[k \in 1..Len(similarCode) |-> similarCode[order[k]]] :
     order \in {o \in Orders(1..Len(similarCode)) :
                  \A k, j \in 1..Len(similarCode) :
                     k < j => similarCode[o[k]].Similarity >= similarCode[o[j]].Similarity}}

EmptyContext == [Imports |-> {}, Definitions |-> {}, SimilarCode |-> << >>]

\* ChromaIndexer.QueryContext on one changed file: every outcome of the call
\* under the given order of the keywords
QueryContextOn(call, keywords) ==
  LET imports == queryImports(call)
      definitions == queryDefinitions(call)
      similar == IF call.patch # << >> THEN querySimilarCode(call, keywords)
                 ELSE [panic |-> FALSE, err |-> FALSE, similarCode |-> << >>]
  IN IF definitions.panic \/ similar.panic
       THEN {[crashed |-> TRUE, err |-> FALSE, context |-> EmptyContext]}
     ELSE {[crashed |-> FALSE, err |-> FALSE,
            context |-> [Imports |-> imports,
                         Definitions |-> IF definitions.err THEN {} ELSE definitions.definitions,
                         SimilarCode |-> IF similar.err THEN << >> ELSE sorted]] :
             sorted \in sortSlice(similar.similarCode)}

ContextPatches == {<< >>, <<"return", "x">>, <<"alpha">>, <<"Alpha", "alpha", "beta">>}

QueryResponses ==
  [kind : {"net", "status", "json"}, ids : {"rows"}, metadatas : {"rows"},
   distances : {"rows"}, honoursTexts : {TRUE}]
  \cup [kind : {"ok"},
        ids : {"missing", "notArray", "rows", "extraRow", "rowNotArray", "noRows"},
        metadatas : {"missing", "notArray", "rows", "extraRow"},
        distances : {"missing", "notArray", "rows", "extraRow"},
        honoursTexts : BOOLEAN]

ContextCases ==
  [fn : {"QueryContext"}, storage : {"chroma", "local"}, vector : {"none", "ok", "fails"},
   patch : ContextPatches, collection : {"ok", "error"},
   documents : {"ok", "error", "more"}, resp : QueryResponses]

InitContext == args \in ContextCases /\ returned = Nil /\ stored = << >>

Calls == IF returned.isNil THEN << >> ELSE returned.val

\* two calls on the same file with nothing written in between; returned
\* holds what each call returned
QueryContext ==
  /\ args # << >> /\ args.fn = "QueryContext"
  /\ Len(Calls) < 2
  /\ \E keywords \in extractKeywords(args.patch) :
       \E result \in QueryContextOn(args, keywords) :
         returned' = Ptr(Append(Calls, result))
  /\ UNCHANGED <<args, stored, others>>

InitContextSpec == InitContext /\ IdleOthers

SpecContext == InitContextSpec /\ [][QueryContext]_vars

\* ------------------------------------- SaveCodeSnippet, then GetCodeSnippet
\* Names are sequences of pieces; "/" and "_" are pieces of their own and no
\* other piece holds one.
ReplaceAll(text, old, new) == [n \in 1..Len(text) |-> IF text[n] = old THEN new ELSE text[n]]

\* time.Now().UnixNano() and time.Now().Unix() at the call
UnixNano == "1700000000000000000"

Unix == "1700000000"

SnippetID(repoKey, filename) ==
  repoKey \o <<"_">> \o ReplaceAll(filename, "/", "_") \o <<"_", UnixNano>>

\* the repository key GetCodeSnippet and getSnippetPath read back from an id
KeyOfID(id) == LET parts == Split(id, "_") IN parts[1] \o <<"/">> \o parts[2]

LongHash == "1a2b3c4d5e"

\* commitHash[:8]
ShortHash(commitHash) == IF commitHash = LongHash THEN "1a2b3c4d" ELSE commitHash

getRepoPath(repoKey, commitHash) ==
  LET safeName == ReplaceAll(repoKey, "/", "_")
  IN IF commitHash # ""
       THEN <<"base", "/">> \o safeName \o <<"/", "commits", "/", ShortHash(commitHash)>>
       ELSE <<"base", "/">> \o safeName \o <<"/", "default">>

getSnippetPath(id, commitHash) ==
  IF Len(Split(id, "_")) < 2 THEN <<"base", "/", "unknown", "/">> \o id \o <<".code">>
  ELSE getRepoPath(KeyOfID(id), commitHash) \o <<"/">> \o id \o <<".code">>

getMetadataPath(id, commitHash) == getSnippetPath(id, commitHash) \o <<".meta">>

\* metadata[key] = value on a map
SetKey(metadata, key, value) ==
  [name \in DOMAIN metadata \cup {key} |-> IF name = key THEN value ELSE metadata[name]]

\* the fields both backends write over what was supplied
Required(metadata, repoKey, filename) ==
  SetKey(SetKey(SetKey(metadata, "repo_key", repoKey), "filename", filename),
         "indexed_at", Unix)

NoFiles == [files |-> {}, metadata |-> {}, collections |-> {}, documents |-> {}]

ReadFile(path) == {file \in stored.files : file.path = path}

LocalSave(call) ==
  LET id == SnippetID(call.repoKey, call.filename)
      commitHash == IF "commit_hash" \in DOMAIN call.metadata
                      THEN call.metadata["commit_hash"] ELSE ""
      metadata == Required(call.metadata, call.repoKey, call.filename)
  IN IF call.io = "error" THEN [id |-> << >>, err |-> TRUE, store |-> stored]
     ELSE [id |-> id, err |-> FALSE,
           store |-> [stored EXCEPT
                        !.files = @ \cup {[path |-> getSnippetPath(id, commitHash),
                                           content |-> call.content],
                                          [path |-> getMetadataPath(id, commitHash),
                                           content |-> metadata]},
                        !.metadata = @ \cup {[id |-> id, metadata |-> metadata]}]]

\* GetCodeSnippet reads the paths of an id saved without a commit hash; the
\* metadata comes from the cache that SaveCodeSnippet filled
LocalGet(id) ==
  LET snippet == ReadFile(getSnippetPath(id, ""))
      cached == {m \in stored.metadata : m.id = id}
      content == (CHOOSE file \in snippet : TRUE).content
  IN IF snippet = {}
       THEN [err |-> TRUE, content |-> << >>, metadata |-> << >>, store |-> stored]
     ELSE IF cached # {}
       THEN [err |-> FALSE, content |-> content,
             metadata |-> (CHOOSE m \in cached : TRUE).metadata, store |-> stored]
     ELSE IF ReadFile(getMetadataPath(id, "")) = {}
       THEN [err |-> TRUE, content |-> content, metadata |-> << >>, store |-> stored]
     ELSE [err |-> FALSE, content |-> content,
           metadata |-> (CHOOSE file \in ReadFile(getMetadataPath(id, "")) : TRUE).content,
           store |-> stored]

\* the text after the last "." of the name, and the language of it
detectLanguageFromFilename(filename) ==
  CASE filename[Len(filename)] = "main.go" -> "go"
    [] filename[Len(filename)] = "app.py" -> "python"
    [] OTHER -> "text"

collectionName(repoKey) == <<"code_snippets_">> \o ReplaceAll(repoKey, "/", "_")

\* json.Marshal writes the replacement character for every byte of a string
\* that is not valid UTF-8
Invalid == "\\xff"

Replacement == "\\ufffd"

JsonString(text) == ReplaceAll(text, Invalid, Replacement)

ChromaSave(call) ==
  LET id == SnippetID(call.repoKey, call.filename)
      metadata == SetKey(Required(call.metadata, call.repoKey, call.filename), "language",
                         detectLanguageFromFilename(call.filename))
      collID == collectionName(call.repoKey)
  IN IF call.io = "error"
       THEN [id |-> << >>, err |-> TRUE,
             store |-> [stored EXCEPT !.collections = @ \cup {collID}]]
     ELSE [id |-> id, err |-> FALSE,
           store |-> [stored EXCEPT
                        !.collections = @ \cup {collID},
                        !.documents = @ \cup {[collection |-> collID, id |-> id,
                                               document |-> JsonString(call.content),
                                               metadata |-> metadata]}]]

ChromaGet(id) ==
  LET collID == collectionName(KeyOfID(id))
      docs == {d \in stored.documents : d.collection = collID /\ d.id = id}
      store == [stored EXCEPT !.collections = @ \cup {collID}]
  IN IF Len(Split(id, "_")) < 2 \/ docs = {}
       THEN [err |-> TRUE, content |-> << >>, metadata |-> << >>, store |-> store]
     ELSE [err |-> FALSE, content |-> (CHOOSE d \in docs : TRUE).document,
           metadata |-> (CHOOSE d \in docs : TRUE).metadata, store |-> store]

RepoKeys == {<<"owner", "/", "repo">>, <<"owner", "_", "repo">>}

Filenames == {<<"main.go">>, <<"src", "/", "main.go">>, <<"README">>}

Contents == {<<"package main">>, <<"caf", Invalid>>}

Metadatas ==
  {<< >>}
  \cup {[name \in {"commit_hash"} |-> hash] : hash \in {"", LongHash}}
  \cup {[name \in {"language"} |-> language] : language \in {"go", "python"}}
  \cup {[name \in {"commit_hash", "language"} |->
           IF name = "commit_hash" THEN hash ELSE language] :
          hash \in {"", LongHash}, language \in {"go", "python"}}

SnippetCases ==
  [fn : {"SaveCodeSnippet"}, backend : {"local", "chroma"}, repoKey : RepoKeys,
   filename : Filenames, content : Contents, metadata : Metadatas, io : {"ok", "error"}]

InitSnippet == args \in SnippetCases /\ returned = Nil /\ stored = NoFiles

SaveCodeSnippet ==
  /\ args # << >> /\ args.fn = "SaveCodeSnippet"
  /\ returned.isNil
  /\ LET saved == IF args.backend = "local" THEN LocalSave(args) ELSE ChromaSave(args)
     IN /\ returned' = Ptr([id |-> saved.id, err |-> saved.err, got |-> Nil, listed |-> Nil])
        /\ stored' = saved.store
  /\ UNCHANGED <<args, others>>

GetCodeSnippet ==
  /\ args # << >> /\ args.fn = "SaveCodeSnippet"
  /\ ~returned.isNil /\ ~returned.val.err /\ returned.val.got.isNil
  /\ LET got == IF args.backend = "local" THEN LocalGet(returned.val.id)
                ELSE ChromaGet(returned.val.id)
     IN /\ returned' = Ptr([returned.val EXCEPT
                              !.got = Ptr([err |-> got.err, content |-> got.content,
                                           metadata |-> got.metadata])])
        /\ stored' = got.store
  /\ UNCHANGED <<args, others>>

\* os.ReadDir(dir): the names of the files that lie in the directory itself
\* (the entries that are directories are skipped by the callers)
ReadDir(dir) ==
  {SubSeq(file.path, Len(dir) + 2, Len(file.path)) :
     file \in {f \in stored.files :
                 /\ Len(f.path) > Len(dir) + 1
                 /\ SubSeq(f.path, 1, Len(dir)) = dir
                 /\ f.path[Len(dir) + 1] = "/"
                 /\ \A n \in (Len(dir) + 2)..Len(f.path) : f.path[n] # "/"}}

\* the entries with the suffix ".code", without it
CodeEntries(dir) ==
  {SubSeq(name, 1, Len(name) - 1) : name \in {e \in ReadDir(dir) : e[Len(e)] = ".code"}}

HasPrefix(text, prefix) ==
  Len(text) >= Len(prefix) /\ SubSeq(text, 1, Len(prefix)) = prefix

\* LocalStorage.ListSnippetsByRepo: the snippets in the directory of the
\* repository key without a commit hash
ListSnippetsByRepo(repoKey) == CodeEntries(getRepoPath(repoKey, ""))

\* LocalStorage.ListSnippetsByFile: those whose name starts with
\* <repoKey>_<filename with "_" for "/">
ListSnippetsByFile(repoKey, filename) ==
  {name \in CodeEntries(getRepoPath(repoKey, "")) :
     HasPrefix(name, repoKey \o <<"_">> \o ReplaceAll(filename, "/", "_"))}

\* the two listings for the repository and the file of the snippet saved
ListSnippets ==
  /\ args # << >> /\ args.fn = "SaveCodeSnippet" /\ args.backend = "local"
  /\ ~returned.isNil /\ ~returned.val.err /\ returned.val.listed.isNil
  /\ returned' = Ptr([returned.val EXCEPT
                        !.listed = Ptr([byRepo |-> ListSnippetsByRepo(args.repoKey),
                                        byFile |-> ListSnippetsByFile(args.repoKey,
                                                                      args.filename)])])
  /\ UNCHANGED <<args, stored, others>>

NextSnippet == SaveCodeSnippet \/ GetCodeSnippet \/ ListSnippets

InitSnippetSpec == InitSnippet /\ IdleOthers

SpecSnippet == InitSnippetSpec /\ [][NextSnippet]_vars

\* ------------------------------------------------ what the program logs
\* A log line is a sequence of pieces; a value logged is one piece.
SecretFields ==
  {"GithubToken", "GitlabToken", "GiteaToken", "OpenAIAPIKey", "DirectLLMAPIKey",
   "LLMProxyAPIKey"}

\* the fields of config.Config, in the order of the struct
ConfigFields ==
  <<"Platform", "GithubToken", "GitlabToken", "GiteaToken", "OpenAIAPIKey", "Model",
    "DirectLLMAPIKey", "LLMProxyEndpoint", "LLMProxyAPIKey", "IndexerStorageType",
    "IndexerVectorType">>

\* the fields main copies into indexer.StorageConfig
StorageConfigFields ==
  <<"IndexerStorageType", "OpenAIAPIKey", "OpenAIModel", "LLMProxyEndpoint",
    "LLMProxyAPIKey">>

\* config.LoadConfig: every field is the value of its environment variable
LoadConfig(env) ==
  [field \in {ConfigFields[n] : n \in 1..Len(ConfigFields)} \cup {"OpenAIModel"} |->
     IF field = "OpenAIModel" THEN env["Model"] ELSE env[field]]

\* fmt's %+v of a pointer to a struct: &{Name:value Name:value ...}
RECURSIVE FormatFields(_, _)
FormatFields(fields, struct) ==
  IF fields = << >> THEN << >>
  ELSE <<Head(fields), ":", struct[Head(fields)]>> \o FormatFields(Tail(fields), struct)

FormatStruct(fields, struct) == <<"&{">> \o FormatFields(fields, struct) \o <<"}">>

\* main: the two Infof lines after LoadConfig
MainLines(env) ==
  LET cfg == LoadConfig(env)
  IN <<<<"Loaded config: ">> \o FormatStruct(ConfigFields, cfg),
       <<"Storage config: ">> \o FormatStruct(StorageConfigFields, cfg)>>

\* Config.LogConfig of the indexer
LogConfigLines(env) ==
  <<<<"Indexer configuration:">>,
    <<"  Storage type: ", env["IndexerStorageType"]>>>>
  \o <<<<"Vector Service Configuration:">>,
       <<"  Vector Type: ", env["IndexerVectorType"]>>>>
  \o (CASE env["IndexerVectorType"] = "openai" ->
             <<<<"  OpenAI Model: ", env["Model"]>>,
               IF env["OpenAIAPIKey"] # "" THEN <<"  OpenAI API Key: [REDACTED]">>
               ELSE <<"  OpenAI API Key not set!">>>>
        [] env["IndexerVectorType"] = "llm_proxy" ->
             <<<<"  LLM Proxy Endpoint: ", env["LLMProxyEndpoint"]>>,
               <<"  LLM Proxy API Key: [REDACTED]">>>>
        [] env["IndexerVectorType"] = "simple" ->
             <<<<"  Using simple rule-based vector embeddings">>>>
        [] OTHER -> << >>)

PlatformTokens ==
  {[Platform |-> "github", GithubToken |-> token, GitlabToken |-> "", GiteaToken |-> ""] :
     token \in {"", "ghp-token"}}
  \cup {[Platform |-> "gitlab", GithubToken |-> "", GitlabToken |-> token, GiteaToken |-> ""] :
          token \in {"", "glpat-token"}}
  \cup {[Platform |-> "gitea", GithubToken |-> "", GitlabToken |-> "", GiteaToken |-> token] :
          token \in {"", "gitea-token"}}

Environments ==
  {[field \in DOMAIN tokens \cup DOMAIN rest |->
      IF field \in DOMAIN tokens THEN tokens[field] ELSE rest[field]] :
     tokens \in PlatformTokens,
     rest \in [OpenAIAPIKey : {"", "sk-openai"}, DirectLLMAPIKey : {"", "direct-key"},
               LLMProxyAPIKey : {"", "proxy-key"}, WebhookSecret : {"", "hook-secret"},
               Model : {"gpt-4o"}, LLMProxyEndpoint : {"http://proxy"},
               IndexerStorageType : {"chroma", "local"},
               IndexerVectorType : {"openai", "local", "llm_proxy", "simple"}]}

LogCases == [fn : {"main"}, env : Environments]

InitLog == args \in LogCases /\ returned = Nil /\ stored = << >>

Logged == IF returned.isNil THEN [lines |-> << >>, ran |-> {}] ELSE returned.val

\* main logs the configuration it loaded
LogLoadedConfig ==
  /\ args # << >> /\ args.fn = "main"
  /\ "main" \notin Logged.ran
  /\ returned' = Ptr([lines |-> Logged.lines \o MainLines(args.env),
                      ran |-> Logged.ran \cup {"main"}])
  /\ UNCHANGED <<args, stored, others>>

\* NewBot logs the configuration of the indexer
LogConfig ==
  /\ args # << >> /\ args.fn = "main"
  /\ "LogConfig" \notin Logged.ran
  /\ returned' = Ptr([lines |-> Logged.lines \o LogConfigLines(args.env),
                      ran |-> Logged.ran \cup {"LogConfig"}])
  /\ UNCHANGED <<args, stored, others>>

NextLog == LogLoadedConfig \/ LogConfig

InitLogSpec == InitLog /\ IdleOthers

SpecLog == InitLogSpec /\ [][NextLog]_vars

\* --------------------------------- Config.Validate and CreateIndexManager
\* The indexer's Config comes in two builds: that of config.go, and that of
\* local_storage.go, which knows the vector type llm_proxy.
DefaultMaxFileSizeBytes == 1048576

DefaultChunkSize == 100

NoError == ""

\* the switch on c.StorageType
ValidateStorage(cfg) ==
  CASE cfg.StorageType = "chroma" ->
         IF cfg.ChromaHost = "" THEN "chroma host is required"
         ELSE IF cfg.ChromaPort <= 0 THEN "invalid chroma port"
         ELSE NoError
    [] cfg.StorageType = "local" ->
         IF cfg.LocalStoragePath = "" THEN "local storage path is required" ELSE NoError
    [] OTHER -> "unsupported storage type"

\* the switch on c.VectorType
ValidateVector(build, cfg) ==
  CASE cfg.VectorType = "openai" ->
         IF cfg.OpenAIAPIKey = "" THEN "openai api key is required" ELSE NoError
    [] cfg.VectorType = "local" ->
         IF cfg.LocalModelPath = "" THEN "local model path is required" ELSE NoError
    [] cfg.VectorType = "llm_proxy" /\ build = "local_storage.go" ->
         IF cfg.LLMProxyEndpoint = "" THEN "llm proxy endpoint is required"
         ELSE IF cfg.LLMProxyAPIKey = "" THEN "llm proxy api key is required"
         ELSE NoError
    [] cfg.VectorType = "simple" -> NoError
    [] OTHER -> "unsupported vector type"

\* the fields Validate has written when it returns: the models, as soon as
\* the switch on the vector type reaches them, and the sizes at the end
Defaulted(build, cfg) ==
  LET vectorErr == ValidateVector(build, cfg)
      reached == ValidateStorage(cfg) = NoError
      valid == reached /\ vectorErr = NoError
  IN [cfg EXCEPT
        !.OpenAIModel =
           IF reached /\ cfg.VectorType = "openai" /\ vectorErr = NoError /\ @ = ""
             THEN "text-embedding-3-small" ELSE @,
        !.LLMProxyModel =
           IF reached /\ cfg.VectorType = "llm_proxy" /\ build = "local_storage.go"
              /\ vectorErr = NoError /\ @ = ""
             THEN IF cfg.LLMProxyProvider = "cohere" THEN "embed-multilingual-v3"
                  ELSE "text-embedding-3-large"
             ELSE @,
        !.MaxFileSizeBytes = IF valid /\ @ <= 0 THEN DefaultMaxFileSizeBytes ELSE @,
        !.ChunkSize = IF valid /\ @ <= 0 THEN DefaultChunkSize ELSE @]

Validate_keepsSizes(build, cfg) ==
  [err |-> IF ValidateStorage(cfg) # NoError THEN ValidateStorage(cfg)
           ELSE ValidateVector(build, cfg),
   cfg |-> cfg]

Validate_anyVector(build, cfg) ==
  [err |-> ValidateStorage(cfg), cfg |-> Defaulted(build, cfg)]

Validate(build, cfg) ==
  [err |-> IF ValidateStorage(cfg) # NoError THEN ValidateStorage(cfg)
           ELSE ValidateVector(build, cfg),
   cfg |-> Defaulted(build, cfg)]

\* NewVectorService as CreateIndexManager of config.go calls it: by the
\* credentials, whatever the vector type
NewVectorService(cfg) ==
  IF cfg.OpenAIAPIKey # "" THEN "openai"
  ELSE IF cfg.LocalModelPath # "" THEN "local"
  ELSE "simple"

\* CreateVectorService of local_storage.go
CreateVectorService(cfg) ==
  CASE cfg.VectorType = "openai" -> [err |-> NoError, vector |-> "openai"]
    [] cfg.VectorType = "llm_proxy" -> [err |-> NoError, vector |-> "llm_proxy"]
    [] OTHER -> [err |-> "failed to create vector service: unsupported vector type",
                 vector |-> "none"]

CreateIndexManagerOf(build, cfg, storageFails) ==
  LET validated == Validate(build, cfg)
      created == CreateVectorService(validated.cfg)
  IN IF validated.err # NoError
       THEN [err |-> validated.err, vector |-> "none", cfg |-> validated.cfg]
     ELSE IF storageFails
       THEN [err |-> "failed to create storage", vector |-> "none", cfg |-> validated.cfg]
     ELSE IF build = "config.go"
       THEN [err |-> NoError, vector |-> NewVectorService(validated.cfg),
             cfg |-> validated.cfg]
     ELSE [err |-> created.err, vector |-> created.vector, cfg |-> validated.cfg]

IndexerConfigs ==
  [StorageType : {"chroma", "local", "invalid"}, ChromaHost : {"", "localhost"},
   ChromaPort : {-1, 0, 8000}, LocalStoragePath : {"", "./data/index"},
   VectorType : {"openai", "local", "llm_proxy", "simple", "invalid"},
   OpenAIAPIKey : {"", "sk-openai"}, OpenAIModel : {""}, LocalModelPath : {"", "./model"},
   LLMProxyEndpoint : {"", "http://proxy"}, LLMProxyAPIKey : {"", "proxy-key"},
   LLMProxyModel : {""}, LLMProxyProvider : {"azure", "cohere"},
   MaxFileSizeBytes : {-1, 0, 2048}, ChunkSize : {0, 50}]

IndexerCases ==
  [fn : {"Validate"}, build : {"config.go", "local_storage.go"}, cfg : IndexerConfigs,
   storageFails : BOOLEAN]

InitIndexer == args \in IndexerCases /\ returned = Nil /\ stored = << >>

\* c.Validate() on the configuration
ValidateConfig ==
  /\ args # << >> /\ args.fn = "Validate"
  /\ returned.isNil
  /\ returned' = Ptr([call |-> "Validate", vector |-> "none"]
                     @@ Validate(args.build, args.cfg))
  /\ UNCHANGED <<args, stored, others>>

\* c.CreateIndexManager() on the configuration
CreateIndexManager ==
  /\ args # << >> /\ args.fn = "Validate"
  /\ returned.isNil
  /\ returned' = Ptr([call |-> "CreateIndexManager"]
                     @@ CreateIndexManagerOf(args.build, args.cfg, args.storageFails))
  /\ UNCHANGED <<args, stored, others>>

NextIndexer == ValidateConfig \/ CreateIndexManager

InitIndexerSpec == InitIndexer /\ IdleOthers

SpecIndexer == InitIndexerSpec /\ [][NextIndexer]_vars

InitCommentSpec ==
  InitComment /\ IdleCancel /\ IdleFilter /\ IdleCall /\ config = IdleConfig /\ IdleCodeReview
  /\ IdleChain /\ IdleMerge /\ IdleServer

SpecComment == InitCommentSpec /\ [][BuildComment]_vars

\* -------------------------- one call of QueryDocumentsWithEmbedding
\* a query vector is a sequence of components; "fill" is the 0.00001 the
\* adjustment pads with
Components == {"x", "y"}

Embeddings == UNION {[1..m -> Components] : m \in 0..(ExpectedDimension + 1)}

\* the adjusted vector: the first ExpectedDimension components, padded
AdjustedEmbedding(queryEmbedding) ==
  [k \in 1..ExpectedDimension |->
     IF k <= Len(queryEmbedding) THEN queryEmbedding[k] ELSE "fill"]

\* reqData: the body of the POST to .../collections/<id>/query
QueryRequest(queryEmbedding, nResults) ==
  [n_results |-> nResults,
   include |-> <<"documents", "metadatas", "distances">>,
   query_embeddings |-> <<queryEmbedding>>]

EmbeddingQueryCases ==
  [fn : {"QueryDocumentsWithEmbedding"}, queryEmbedding : Embeddings, nResults : {5},
   answer : {"net", "status", "json", "ok"}]

InitEmbeddingQuery == args \in EmbeddingQueryCases /\ returned = Nil /\ stored = << >>

\* the call up to c.httpClient.Do(req): the request is built from the
\* vector as it was passed in, and sent; stored holds the local
\* queryEmbedding and the request the store received
SendEmbeddingQuery ==
  /\ args # << >> /\ args.fn = "QueryDocumentsWithEmbedding"
  /\ stored = << >>
  /\ stored' = [queryEmbedding |-> args.queryEmbedding,
                request |-> QueryRequest(args.queryEmbedding, args.nResults),
                adjusted |-> FALSE]
  /\ returned' = IF args.answer = "net" THEN Ptr([err |-> "failed to send request"]) ELSE Nil
  /\ UNCHANGED <<args, others>>

\* from the response to the dimension check: a status other than 200 and a
\* body that is no JSON end the call; otherwise a vector of another
\* dimension than expected is replaced by the adjusted one
AdjustEmbedding ==
  /\ args # << >> /\ args.fn = "QueryDocumentsWithEmbedding"
  /\ stored # << >> /\ ~stored.adjusted
  /\ returned.isNil
  /\ IF args.answer = "status"
       THEN returned' = Ptr([err |-> "query documents failed with status"])
            /\ UNCHANGED stored
     ELSE IF args.answer = "json"
       THEN returned' = Ptr([err |-> "failed to parse response"]) /\ UNCHANGED stored
     ELSE /\ stored' = [stored EXCEPT
                          !.queryEmbedding =
                             IF Len(@) # ExpectedDimension THEN AdjustedEmbedding(@) ELSE @,
                          !.adjusted = TRUE]
          /\ UNCHANGED returned
  /\ UNCHANGED <<args, others>>

\* the rest of the call: ids, metadatas and scores are taken from the
\* answer (the decoding is that of QueryDocuments) and returned
ReturnEmbeddingQuery ==
  /\ args # << >> /\ args.fn = "QueryDocumentsWithEmbedding"
  /\ stored # << >> /\ stored.adjusted
  /\ returned.isNil
  /\ returned' = Ptr([err |-> ""])
  /\ UNCHANGED <<args, stored, others>>

NextEmbeddingQuery == SendEmbeddingQuery \/ AdjustEmbedding \/ ReturnEmbeddingQuery

InitEmbeddingQuerySpec == InitEmbeddingQuery /\ IdleOthers

SpecEmbeddingQuery == InitEmbeddingQuerySpec /\ [][NextEmbeddingQuery]_vars

\* ---------------------------------------- one call of EnrichPatchWithContext
\* the headers of the five sections and the line that closes a section
ImportsHeader == "/* Relevant imports:\n"

DefinitionsHeader == "/* Relevant definitions:\n"

ReferencesHeader == "/* Relevant references:\n"

DependenciesHeader == "/* Dependencies:\n"

SimilarHeader == "/* Similar code patterns:\n"

SectionEnd == "*/\n\n"

\* the loop `WriteString(item); WriteString("\n")` over a slice of strings
RECURSIVE WriteLines(_)
WriteLines(items) ==
  IF items = << >> THEN << >> ELSE <<Head(items), "\n">> \o WriteLines(Tail(items))

\* fmt.Sprintf("// %s\n%s\n\n", name, def) for the entries in the given order
RECURSIVE WriteDefinitions(_)
WriteDefinitions(entries) ==
  IF entries = << >> THEN << >>
  ELSE <<"// ", Head(entries)[1], "\n", Head(entries)[2], "\n\n">>
       \o WriteDefinitions(Tail(entries))

\* %.2f of a similarity given in thousandths, rounded to hundredths
FormatSimilarity(thousandths) ==
  LET hundredths == (thousandths + 5) \div 10
  IN <<ToString(hundredths \div 100), ".", ToString((hundredths % 100) \div 10),
       ToString(hundredths % 10)>>

\* fmt.Sprintf("From %s (lines %d-%d, similarity: %.2f):\n%s\n\n", ...)
RECURSIVE WriteSnippets(_)
WriteSnippets(snippets) ==
  IF snippets = << >> THEN << >>
  ELSE <<"From ", Head(snippets).Filename, " (lines ", ToString(Head(snippets).LineStart),
         "-", ToString(Head(snippets).LineEnd), ", similarity: ">>
       \o FormatSimilarity(Head(snippets).Similarity)
       \o <<"):\n", Head(snippets).Content, "\n\n">>
       \o WriteSnippets(Tail(snippets))

\* a section: written only when the part has an element
ContextSection(header, isEmpty, body) ==
  IF isEmpty THEN << >> ELSE <<header>> \o body \o <<SectionEnd>>

\* (mutant) the imports section is written for an empty list as well
EnrichPatchWithContext_alwaysImports(patch, codeContext) ==
  IF codeContext.isNil THEN {patch}
  ELSE {<<ImportsHeader>> \o WriteLines(codeContext.val.Imports) \o <<SectionEnd>> \o patch}

\* func EnrichPatchWithContext(patch string, context *CodeContext) string:
\* the strings it can return, one for each order in which the map of the
\* definitions may be ranged over
EnrichPatchWithContext(patch, codeContext) ==
  IF codeContext.isNil THEN {patch}
  ELSE LET ctx == codeContext.val
       IN {ContextSection(ImportsHeader, ctx.Imports = << >>, WriteLines(ctx.Imports))
           \o ContextSection(DefinitionsHeader, ctx.Definitions = {}, WriteDefinitions(entries))
           \o ContextSection(ReferencesHeader, ctx.References = << >>,
                             WriteLines(ctx.References))
           \o ContextSection(DependenciesHeader, ctx.Dependencies = << >>,
                             WriteLines(ctx.Dependencies))
           \o ContextSection(SimilarHeader, ctx.SimilarCode = << >>,
                             WriteSnippets(ctx.SimilarCode))
           \o patch :
             entries \in Orders(ctx.Definitions)}

EnrichPatches == {<< >>, <<"+x := 1">>, <<"@@ -1 +1 @@\n", "+x := 1">>}

SampleSnippet ==
  [Filename |-> "a.go", Content |-> "func Alpha() {}", Similarity |-> 199,
   LineStart |-> 1, LineEnd |-> 5]

\* a CodeContext; Definitions is a map, held as the set of its entries
CodeContexts ==
  [Imports : {<< >>, <<"import fmt">>, <<"import fmt", "import os">>},
   Definitions : SUBSET {<<"Alpha", "func Alpha()">>, <<"Beta", "type Beta struct">>},
   References : {<< >>, <<"main.go:12">>},
   Dependencies : {<< >>, <<"">>},
   SimilarCode : {<< >>, <<SampleSnippet>>}]

EnrichCases ==
  [fn : {"EnrichPatchWithContext"}, patch : EnrichPatches,
   context : {Nil} \cup {Ptr(c) : c \in CodeContexts}]

InitEnrich == args \in EnrichCases /\ returned = Nil /\ stored = << >>

\* enhancedPatch = indexer.EnrichPatchWithContext(patch, codeContext)
EnrichPatch ==
  /\ args # << >> /\ args.fn = "EnrichPatchWithContext"
  /\ returned.isNil
  /\ \E enriched \in EnrichPatchWithContext(args.patch, args.context) :
       returned' = Ptr(enriched)
  /\ UNCHANGED <<args, stored, others>>

InitEnrichSpec == InitEnrich /\ IdleOthers

SpecEnrich == InitEnrichSpec /\ [][EnrichPatch]_vars

\* ------------------- concurrent calls of ChromaStorage.getOrCreateCollection
\* Callers 1..MaxCallers ask for the collection of one repoKey on a
\* ChromaStorage whose caches are empty. stored holds
\*   at[c]        where caller c stands,
\*   collID[c]    its local collID,
\*   result[c]    what its call returned,
\*   collections  s.collections[repoKey] (ChromaStorage),
\*   byName       c.collections[collectionName] (RealChromaClient),
\*   store        the ids of the collections of that name in the store.
Callers == 1..MaxCallers

\* the id the store gives to its n-th collection
StoreID(n) == <<"c", ToString(n)>>

\* What the store does with a POST for a name it already has is the
\* store's: it refuses (Chroma answers 409), it answers with the collection
\* it has, or it makes another collection of that name.
StorePolicies == {"refuse", "existing", "another"}

CollectionCases ==
  [fn : {"getOrCreateCollection"}, policy : StorePolicies, exists : BOOLEAN]

InitCollection ==
  /\ args \in CollectionCases
  /\ returned = Nil
  /\ stored = [at |-> [c \in Callers |-> "start"],
               collID |-> [c \in Callers |-> Nil],
               result |-> [c \in Callers |-> Nil],
               collections |-> Nil,
               byName |-> Nil,
               store |-> IF args.exists THEN <<StoreID(1)>> ELSE << >>]

CollectionCall == args # << >> /\ args.fn = "getOrCreateCollection"

At(caller, place) == CollectionCall /\ stored.at[caller] = place

Move(caller, place) == [stored EXCEPT !.at[caller] = place]

Finish(caller, collID, err) ==
  [stored EXCEPT !.at[caller] = "done", !.result[caller] = Ptr([collID |-> collID, err |-> err])]

\* s.mu.RLock(); collID, ok := s.collections[repoKey]; s.mu.RUnlock()
CheckCollections(caller) ==
  /\ At(caller, "start")
  /\ stored' = IF stored.collections.isNil THEN Move(caller, "get")
               ELSE Finish(caller, stored.collections.val, FALSE)
  /\ UNCHANGED <<args, returned, others>>

\* GetCollection: the look into the client's cache
GetCollectionCached(caller) ==
  /\ At(caller, "get")
  /\ stored' = IF stored.byName.isNil THEN Move(caller, "getRequest")
               ELSE [Move(caller, "put") EXCEPT !.collID[caller] = stored.byName]
  /\ UNCHANGED <<args, returned, others>>

\* GetCollection: the GET requests; the id comes back when the store has a
\* collection of the name, "collection not found" otherwise
GetCollectionRequest(caller) ==
  /\ At(caller, "getRequest")
  /\ stored' = IF stored.store = << >> THEN Move(caller, "create")
               ELSE [Move(caller, "getCache") EXCEPT !.collID[caller] = Ptr(stored.store[1])]
  /\ UNCHANGED <<args, returned, others>>

\* GetCollection and CreateCollection: c.collections[name] = collectionID
UpdateClientCache(caller) ==
  /\ At(caller, "getCache") \/ At(caller, "createCache")
  /\ stored' = [Move(caller, "put") EXCEPT !.byName = stored.collID[caller]]
  /\ UNCHANGED <<args, returned, others>>

\* CreateCollection: the look into the client's cache
CreateCollectionCached(caller) ==
  /\ At(caller, "create")
  /\ stored' = IF stored.byName.isNil THEN Move(caller, "createRequest")
               ELSE [Move(caller, "put") EXCEPT !.collID[caller] = stored.byName]
  /\ UNCHANGED <<args, returned, others>>

\* CreateCollection: the POST with the name and the metadata; a status
\* other than 200 and 201 ends getOrCreateCollection with an error
CreateCollectionRequest(caller) ==
  /\ At(caller, "createRequest")
  /\ stored' =
       IF stored.store = << >> \/ args.policy = "another"
         THEN [Move(caller, "createCache") EXCEPT
                 !.store = Append(@, StoreID(Len(@) + 1)),
                 !.collID[caller] = Ptr(StoreID(Len(stored.store) + 1))]
       ELSE IF args.policy = "existing"
         THEN [Move(caller, "createCache") EXCEPT !.collID[caller] = Ptr(stored.store[1])]
       ELSE Finish(caller, << >>, TRUE)
  /\ UNCHANGED <<args, returned, others>>

\* s.mu.Lock(); s.collections[repoKey] = collID; s.mu.Unlock(); return collID
PutCollection(caller) ==
  /\ At(caller, "put")
  /\ stored' = [Finish(caller, stored.collID[caller].val, FALSE) EXCEPT
                  !.collections = stored.collID[caller]]
  /\ UNCHANGED <<args, returned, others>>

NextCollection ==
  \E caller \in Callers :
    \/ CheckCollections(caller)
    \/ GetCollectionCached(caller)
    \/ GetCollectionRequest(caller)
    \/ UpdateClientCache(caller)
    \/ CreateCollectionCached(caller)
    \/ CreateCollectionRequest(caller)
    \/ PutCollection(caller)

InitCollectionSpec == InitCollection /\ IdleOthers

SpecCollection == InitCollectionSpec /\ [][NextCollection]_vars

\* ---------------------------------------------------------------- claims
\* the verdict the dispatcher owes for chunk idx: the one its successful run
\* gave, or the neutral verdict when no run succeeded
Owed(k) == IF produced[k].isNil THEN NeutralResult ELSE produced[k].val

\* C1: for a patch of N > 1 chunks, when CodeReview has collected all the
\* results, the results slice has exactly N verdicts and the verdict at
\* position idx is the one produced for chunk idx (after its retries, if
\* any), whatever the order in which the workers sent; and every verdict
\* stored before that is already in the slot of its chunk.
C1_OutputInChunkOrder ==
  /\ (chunkCount > 1 /\ pc \in {"returned", "done"}) =>
       /\ Len(results) = chunkCount
       /\ i = chunkCount
       /\ \A k \in 1..chunkCount : tries[k] >= 1 /\ results[k] = Owed(k)
  /\ \A k \in 1..Len(results) : results[k] \in {ZeroResult, Owed(k)}

\* C1 witness: the worker of chunk 1 finished before the worker of chunk 0,
\* its chunk was retried, and all the results were then collected.
C1_Witness ==
  /\ chunkCount > 1
  /\ pc = "returned"
  /\ tries[2] > 1
  /\ results[2] = ModelVerdict(Prompt(1, FALSE), FALSE)
  /\ results[1] = ModelVerdict(Prompt(0, TRUE), TRUE)

\* C1 witness of the completion order: the result of chunk 1 is collected
\* while the worker of chunk 0 is still running.
C1_WitnessOutOfOrder ==
  /\ chunkCount > 1
  /\ i = 1
  /\ worker[0] = "running"
  /\ worker[1] = "done"
  /\ results[2] = ModelVerdict(Prompt(1, TRUE), FALSE)

\* C4: when the provider chain has failed for a chunk, the chunk is retried,
\* at most MaxRetries times; the verdict of the first retry that succeeds is
\* the one recorded, and the neutral verdict is recorded for a chunk whose
\* chain failed only after MaxRetries retries have failed.
C4_RetriedBeforeNeutral ==
  (chunkCount > 1 /\ pc \in {"returned", "done"}) =>
    \A k \in 1..chunkCount :
      /\ tries[k] <= 1 + MaxRetries
      /\ chainFailed[k] => (tries[k] = 1 + MaxRetries /\ results[k] = NeutralResult)
      /\ ~chainFailed[k] => results[k] = Owed(k)

\* C4, the failing case: the only run of a chunk had every provider it called
\* fail, and the neutral verdict was recorded without any retry.
C4_NeutralWithoutRetry ==
  /\ chunkCount > 1
  /\ pc = "returned"
  /\ \E k \in 1..chunkCount :
       chainFailed[k] /\ tries[k] = 1 /\ results[k] = NeutralResult

\* C5: when every provider has failed for a chunk, the neutral verdict is
\* recorded for it and CodeReview returns no error, so the file gets its
\* per-file comment; for a patch of one chunk as for a patch of several.
C5_NeutralInsteadOfAbort ==
  pc = "done" =>
    \A k \in 1..chunkCount :
      chainFailed[k] =>
        /\ ~ret.err
        /\ Len(reviewComments) = 1
        /\ IF chunkCount > 1 THEN results[k] = NeutralResult
                             ELSE ret.result = NeutralResult

\* C5, the failing case: a patch of one chunk, every provider failed, and
\* CodeReview returned the error: the file got no comment.
C5_SingleChunkAborts ==
  /\ chunkCount = 1
  /\ pc = "done"
  /\ chainFailed[1]
  /\ ret.err
  /\ reviewComments = << >>

\* C2: the merged verdict is LGTM exactly when every chunk's verdict is
\* LGTM; the merge of no verdicts is LGTM.
C2_MergedLgtmIsConjunction ==
  ~mergeOutput.isNil =>
    /\ mergeOutput.val.LGTM = (\A k \in 1..Len(mergeInput) : mergeInput[k].LGTM)
    /\ (mergeInput = << >> => mergeOutput.val.LGTM)

\* C2 witness: three verdicts were merged, only the first of them not LGTM.
C2_Witness ==
  /\ ~mergeOutput.isNil
  /\ Len(mergeInput) = MaxMerge
  /\ ~mergeInput[1].LGTM
  /\ \A k \in 2..Len(mergeInput) : mergeInput[k].LGTM
  /\ ~mergeOutput.val.LGTM

\* the enabled providers in the order of the chain
EnabledSeq(c) == SelectSeq(Providers, LAMBDA p : Enabled(c, p))

\* the verdict in an answer that is a bare JSON verdict
IsVerdictOf(resp, p) ==
  \E l \in BOOLEAN : resp.content = JsonContent(FALSE, VerdictObj(ProviderVerdict(p, l)))

\* C6: the providers are called in the order Claude, Deepseek, Direct LLM,
\* OpenAI (those that are enabled), each one only after all those before it
\* failed, and none after one has answered; when Claude fails and Deepseek
\* answers with a verdict, the result is that verdict and exactly two calls
\* were made.
C6_ProvidersInOrder ==
  ~chainRun.isNil =>
    LET calls == chainRun.val.calls
        chain == EnabledSeq(config)
    IN /\ Len(calls) >= 1 /\ Len(calls) <= Len(chain)
       /\ \A n \in 1..Len(calls) :
            /\ calls[n].provider = chain[n]
            /\ calls[n].ok = Answered(answers[chain[n]])
            /\ n < Len(calls) => ~calls[n].ok
       /\ Len(calls) < Len(chain) => calls[Len(calls)].ok
       /\ ( /\ config.IsClaudeEnabled /\ config.IsDeepseekEnabled
            /\ ~Answered(answers["Claude"])
            /\ IsVerdictOf(answers["Deepseek"], "Deepseek") )
          => /\ Len(calls) = 2
             /\ answers["Deepseek"].content = JsonContent(FALSE, VerdictObj(chainRun.val.result))

\* C6 witness: the four providers are enabled, Claude answered HTTP 500 and
\* Deepseek gave a verdict, which is the result, after two calls.
C6_Witness ==
  /\ ~chainRun.isNil
  /\ EnabledSet(config) = ProviderSet
  /\ answers["Claude"] = Answer("Claude", "http500")
  /\ answers["Deepseek"] = Answer("Deepseek", "changes")
  /\ answers["OpenAI"] = Answer("OpenAI", "lgtm")
  /\ chainRun.val.result = ProviderVerdict("Deepseek", FALSE)
  /\ Len(chainRun.val.calls) = 2

\* C7: when the provider that answered gave its verdict wrapped under one of
\* the keys value, data, input, result, the fields of the result are those
\* of the wrapped verdict, whichever provider it was.
C7_WrapperUnwrapped ==
  ~chainRun.isNil =>
    LET calls == chainRun.val.calls
        p == calls[Len(calls)].provider
    IN \A key \in WrapKeySet :
         (calls # << >> /\ answers[p] = Answer(p, key))
           => chainRun.val.result = ProviderVerdict(p, TRUE)

\* C7, the failing case: OpenAI answered with the verdict wrapped under
\* "value" and the result is the zero ReviewResult.
C7_OpenAINotUnwrapped ==
  /\ ~chainRun.isNil
  /\ EnabledSet(config) = {"OpenAI"}
  /\ answers["OpenAI"] = Answer("OpenAI", "value")
  /\ chainRun.val.result = ZeroResult

\* C7, the case that works: Deepseek answered with the verdict wrapped under
\* "data" and the result is the wrapped verdict.
C7_DeepseekUnwrapped ==
  /\ ~chainRun.isNil
  /\ EnabledSet(config) = {"Deepseek"}
  /\ answers["Deepseek"] = Answer("Deepseek", "data")
  /\ chainRun.val.result = ProviderVerdict("Deepseek", TRUE)

\* the event is one the handlers review: opened or synchronized, on a pull
\* request that is open (and neither locked nor work in progress)
ReviewedEvent ==
  /\ request.Parsed.ok
  /\ request.Parsed.action \in {OpenedAction(platform), SynchronizedAction(platform)}
  /\ request.Parsed.state = "open"
  /\ ~request.Parsed.locked /\ ~request.Parsed.wip

\* the last commit of the pull request changes a file the filter retains
LatestCommitRetained ==
  \E f \in repo.touch[repo.n] : Retained(botConfig, platform, f)

\* C3: an invocation of the handler for an opened or synchronized event on
\* an open pull request whose changed files include a file the filter
\* retains posts exactly one review: never more than one, and one when it
\* has ended (here: when no call to the platform failed).
C3_ExactlyOneReview ==
  /\ Len(posted) <= 1
  /\ (gpc = "done" /\ ReviewedEvent /\ LatestCommitRetained /\ ~apiFailed)
       => Len(posted) = 1

\* C3, the failing case: a gitea "synchronized" event on an open pull
\* request whose last commit changes main.go, no call failed, and the
\* handler ended with "no files" and no review.
C3_GiteaSynchronizedNoReview ==
  /\ platform = "gitea"
  /\ request.Parsed.action = "synchronized"
  /\ ReviewedEvent /\ LatestCommitRetained /\ ~apiFailed
  /\ 0 \notin DOMAIN repo.openPRs
  /\ gpc = "done"
  /\ outcome = "no files"
  /\ posted = << >>

\* the request is one the platform signed for body b
SignedRequest(b) ==
  /\ request.Body = b
  /\ request.headers = Signed(platform, webhookSecret, b)

\* the request is a signed one with one bit of the body flipped
MutatedPayload(b) ==
  /\ request.Body \in Mutations(b)
  /\ request.headers = Signed(platform, webhookSecret, b)

\* the header validatePayload validates in this request
ValidatedHeader ==
  IF platform = "github" /\ request.headers.Signature256 = NoHeader
  THEN "Signature" ELSE SignatureHeader(platform)

\* the request is a signed one with one bit flipped in header h
MutatedHeader(b, h) ==
  /\ request.Body = b
  /\ request.headers[h] \in Mutations(Signed(platform, webhookSecret, b)[h])
  /\ \A g \in DOMAIN request.headers \ {h} :
       request.headers[g] \in {Signed(platform, webhookSecret, b)[g], NoHeader}

\* the two headers encode the same digest: they differ only in the case of
\* hexadecimal digits after the "="
SameDigest(x, y) ==
  /\ Len(x) = Len(y)
  /\ \A n \in 1..Len(x) :
       x[n] # y[n] =>
         /\ n > FirstEquals(y) /\ FirstEquals(y) # 0
         /\ FromHexChar(x[n]) = FromHexChar(y[n]) /\ FromHexChar(x[n]) # -1

Rejected == httpStatus = 400 /\ handlerCalls = 0 /\ gpc = "none"

Accepted == httpStatus # 400 /\ handlerCalls = 1

SignedPlatform == platform \in {"github", "gitea"} /\ webhookSecret # << >>

C8_GithubCaseFlipAccepted ==
  /\ platform = "github"
  /\ request.Body = <<123, 125>>
  /\ request.headers.Signature256 = Ascii("sha256") \o Ascii("=") \o <<68, 101>>
  /\ hpc = "done"
  /\ httpStatus = 200
  /\ handlerCalls = 1

\* C9: with a secret configured, a request without the signature header
\* (github, gitea) or the token header (gitlab) is rejected and the
\* pipeline never starts.
C9_UnsignedRejected ==
  (webhookSecret # << >> /\ request.headers = Unsigned) =>
    /\ handlerCalls = 0
    /\ gpc = "none"
    /\ hpc = "done" => httpStatus = 400

\* C9, the failing case: a gitlab request without a token, on a server with
\* a secret, for which a review was posted.
C9_UnsignedReviewed ==
  /\ platform = "gitlab"
  /\ webhookSecret # << >>
  /\ request.headers = Unsigned
  /\ Len(posted) = 1

\* C9, the case that works: on github the request is rejected.
C9_GithubUnsignedRejected ==
  /\ platform = "github"
  /\ webhookSecret # << >>
  /\ request.headers = Unsigned
  /\ hpc = "done"
  /\ Rejected

\* a step of the pipeline has been executed: the first is CompareCommits
PipelineStarted ==
  \/ gpc \in {"latest", "review", "create"}
  \/ outcome \in {"compare failed", "no files", "create failed", "reviewed"}

Proceeded ==
  \/ gpc \in {"compare", "latest", "review", "create"}
  \/ outcome \in {"compare failed", "no files", "create failed", "reviewed"}

\* C11: the pipeline proceeds only for an opened or synchronized (update)
\* event on a pull request that is neither closed nor locked, on github,
\* gitlab and gitea alike.
C11_ProceedsOnlyIfOpenUnlocked ==
  Proceeded =>
    /\ request.Parsed.action \in {OpenedAction(platform), SynchronizedAction(platform)}
    /\ request.Parsed.state # "closed"
    /\ ~request.Parsed.locked

\* C11, the part that holds: the pipeline proceeds only for an opened or
\* synchronized (update) event on a pull request that is not closed and, on
\* github, not locked, on gitlab, not work in progress.
C11_ProceedsOnlyIfNotSkipped ==
  Proceeded =>
    /\ request.Parsed.ok
    /\ request.Parsed.action \in {OpenedAction(platform), SynchronizedAction(platform)}
    /\ request.Parsed.state # "closed"
    /\ platform = "github" => ~request.Parsed.locked
    /\ platform = "gitlab" => ~request.Parsed.wip

\* C11: a review was posted for an update event on gitlab.
C11_GitlabUpdateReviewed ==
  /\ platform = "gitlab"
  /\ request.Parsed.action = "update"
  /\ request.Parsed.state = "open"
  /\ ~request.Parsed.locked /\ ~request.Parsed.wip
  /\ outcome = "reviewed"

\* C11, the failing case: a locked pull request on gitea was reviewed.
C11_GiteaLockedReviewed ==
  /\ platform = "gitea"
  /\ request.Parsed.locked
  /\ outcome = "reviewed"

\* C11: and on github a locked pull request is skipped.
C11_GithubLockedSkipped ==
  /\ platform = "github"
  /\ request.Parsed.locked
  /\ request.Parsed.state = "open"
  /\ request.Parsed.action = "opened"
  /\ outcome = "skipped"

\* C12: when a target label is configured, a pull request without it is
\* skipped: no file is reviewed by the model and no review is posted.
C12_UnlabelledSkipped ==
  (botConfig.TargetLabel # "" /\ botConfig.TargetLabel \notin repo.labels) =>
    /\ gpc \notin {"create"}
    /\ outcome # "reviewed"
    /\ posted = << >>

\* C12, the failing case: the bot requires "needs-review", the pull request
\* has no label, and a review with a comment on main.go was posted.
C12_UnlabelledReviewed ==
  /\ botConfig.TargetLabel = NeedsReview
  /\ repo.labels = {}
  /\ outcome = "reviewed"
  /\ Len(posted) = 1
  /\ Len(posted[1].Comments) = 1

\* the handler has the files it reviews: the comparisons are done
FilesCompared ==
  \/ gpc \in {"review", "create"}
  \/ outcome \in {"no files", "create failed", "reviewed"}

\* C13: for a synchronized (update) event whose comparison has two or more
\* commits, the files the handler reviews are those of the diff between the
\* second-newest and the newest commit of the pull request (here: when no
\* call to the platform failed).
C13_LatestCommitDiffReviewed ==
  (FilesCompared /\ ~apiFailed
     /\ request.Parsed.action = SynchronizedAction(platform)
     /\ Len(commits) >= 2) =>
    changedFiles = FileList(repo.touch[repo.n])

\* C13, the failing case: an update event on gitlab after a push of three
\* commits; the files reviewed are those of the middle commit, reversed.
C13_GitlabOlderCommitReviewed ==
  /\ platform = "gitlab"
  /\ request.Parsed.action = "update"
  /\ repo.n = 3 /\ repo.oldRev = 0
  /\ repo.touch = <<{MainGo}, {ReadmeMd}, {MainGo}>>
  /\ commits = <<3, 2, 1>>
  /\ ~apiFailed
  /\ FilesCompared
  /\ changedFiles = <<Reversed(ReadmeMd)>>

\* C13, the case that works: a synchronize event on github after a push of
\* two commits; the files of the second one are reviewed.
C13_GithubLatestCommitReviewed ==
  /\ platform = "github"
  /\ request.Parsed.action = "synchronize"
  /\ repo.touch = <<{ReadmeMd}, {MainGo}>>
  /\ commits = <<1, 2>>
  /\ outcome = "reviewed"
  /\ changedFiles = <<MainGo>>

\* C14: the commitID passed to CreateReview is the SHA of the newest commit
\* of the pull request.
C14_ReviewOnNewestCommit ==
  \A n \in 1..Len(posted) : posted[n].CommitID = repo.n

\* C14, the failing case: on gitea the review of a pull request of one
\* commit is created with the SHA of the base.
C14_GiteaReviewOnBase ==
  /\ platform = "gitea"
  /\ repo.n = 1
  /\ ~apiFailed
  /\ commits = <<1, 0>>
  /\ Len(posted) = 1
  /\ posted[1].CommitID = 0

\* C14, another failing case: on gitlab, after a push of two commits, the
\* review is created with the SHA of the older one.
C14_GitlabReviewOnOldest ==
  /\ platform = "gitlab"
  /\ repo.n = 2 /\ repo.oldRev = 0
  /\ commits = <<2, 1>>
  /\ Len(posted) = 1
  /\ posted[1].CommitID = 1

\* C14, the case that works: on github the review is created with the SHA
\* of the second of two commits.
C14_GithubReviewOnNewest ==
  /\ platform = "github"
  /\ repo.n = 2
  /\ commits = <<1, 2>>
  /\ Len(posted) = 1
  /\ posted[1].CommitID = 2

\* the mark in the LGTM header of a comment
HeaderMark(comment) == comment.Body[2]

\* C15: the comment of a file has the "changes required" header exactly
\* when the verdict produced for the file has lgtm = false and the "looks
\* good" header exactly when it has lgtm = true; a verdict the model gave as
\* {"value": {"lgtm": false, ...}} yields the "changes required" header.
C15_HeaderFollowsVerdict ==
  ~fileReview.isNil =>
    \A n \in 1..Len(fileReview.val.comments) :
      LET mark == HeaderMark(fileReview.val.comments[n])
      IN /\ mark \in {CrossZh, CrossEn} <=> ~fileReview.val.result.LGTM
         /\ mark \in {CheckZh, CheckEn} <=> fileReview.val.result.LGTM
         /\ (commentCase.answer = "wrapped" /\ ~commentCase.verdict.LGTM)
              => mark \in {CrossZh, CrossEn}

\* C15, the failing case: the handlers with the indexer, Claude answers
\* lgtm = false with a review comment and no suggestions or risks, and the
\* comment has the "looks good" header.
C15_ChangesVerdictLooksGood ==
  /\ commentCase.source = "part_014"
  /\ commentCase.provider = "Claude"
  /\ commentCase.answer = "plain"
  /\ commentCase.verdict =
       ReviewResult(FALSE, <<"plain">>, <<"summary">>, EmptyStr, EmptyStr, EmptyStr)
  /\ ~fileReview.isNil
  /\ fileReview.val.result = commentCase.verdict
  /\ Len(fileReview.val.comments) = 1
  /\ HeaderMark(fileReview.val.comments[1]) = CheckZh

\* C15, the case that works: handlers.go, a wrapped verdict with lgtm =
\* false from Deepseek, and the comment has the "changes required" header.
C15_WrappedChangesRequired ==
  /\ commentCase.source = "handlers.go"
  /\ commentCase.provider = "Deepseek"
  /\ commentCase.answer = "wrapped"
  /\ ~commentCase.verdict.LGTM
  /\ ~fileReview.isNil
  /\ fileReview.val.result = commentCase.verdict
  /\ HeaderMark(fileReview.val.comments[1]) = CrossZh

\* the bullet of the file in the review body is the cross
CrossBullet(review) == Contains(review.body, "[X] needs changes: ")

\* the bullet of the file in the review body is the check mark
CheckBullet(review) == Contains(review.body, "[V] fine: ")

\* C16: in the review body of handlePullRequest a reviewed file has the
\* cross bullet if and only if its verdict was not LGTM and the check bullet
\* otherwise, whatever the text of the model and the language.
C16_BulletFollowsVerdict ==
  (~fileReview.isNil /\ commentCase.source # "bot.go") =>
    \A n \in 1..Len(fileReview.val.comments) :
      /\ CrossBullet(fileReview.val) <=> ~fileReview.val.result.LGTM
      /\ CheckBullet(fileReview.val) <=> fileReview.val.result.LGTM

\* C16, the failing case: handlers.go, the verdict is lgtm = true and its
\* review comment quotes "LGTM: false"; the file has the cross bullet.
C16_QuotedTextGivesCross ==
  /\ commentCase.source = "handlers.go"
  /\ commentCase.answer = "plain"
  /\ commentCase.verdict.LGTM
  /\ commentCase.verdict.ReviewComment = <<"the test prints ", "LGTM: false">>
  /\ ~fileReview.isNil
  /\ fileReview.val.result = commentCase.verdict
  /\ HeaderMark(fileReview.val.comments[1]) = CheckZh
  /\ CrossBullet(fileReview.val)

\* C16, another failing case: the handlers with the indexer, in English; the
\* verdict is lgtm = false with suggestions, the header says "Changes
\* Required" and the file has the check bullet.
C16_EnglishGivesCheck ==
  /\ commentCase.source = "part_014"
  /\ commentCase.language = "english"
  /\ commentCase.answer = "plain"
  /\ commentCase.verdict =
       ReviewResult(FALSE, <<"plain">>, <<"summary">>, <<"fix it">>, EmptyStr, EmptyStr)
  /\ ~fileReview.isNil
  /\ fileReview.val.result = commentCase.verdict
  /\ HeaderMark(fileReview.val.comments[1]) = CrossEn
  /\ CheckBullet(fileReview.val)

\* C17: when posting to the platform fails, for the body of the review or
\* for the comment of a file, CreateReview returns the error and the handler
\* returns it to its caller.
C17_PostingFailureReturned ==
  \A n \in 1..Len(posted) : posted[n].Rejected # << >> => outcome = "create failed"

\* C17, the failing case: on gitlab the note with the body was posted, the
\* discussion for the comment on a file was refused, and the handler has
\* returned nil.
C17_GitlabRefusedCommentSucceeds ==
  /\ platform = "gitlab"
  /\ gpc = "done"
  /\ outcome = "reviewed"
  /\ Len(posted) = 1
  /\ posted[1].Comments = << >>
  /\ Len(posted[1].Rejected) = 1

\* C17, the case that works: the call of the adapter failed as a whole,
\* nothing was posted and the handler has returned the error.
C17_GithubFailureReturned ==
  /\ platform = "github"
  /\ gpc = "done"
  /\ outcome = "create failed"
  /\ reviewComments # << >>
  /\ posted = << >>

\* the context was cancelled while files were still to be reviewed
CancelledInReview ==
  /\ cancelCase # << >>
  /\ ctxDone
  /\ handling.cancelledAt <= Len(cancelCase.files)

\* C18: when the context is cancelled while the review is in progress, no
\* review built from the partial results is posted and the handler returns
\* an error.
C18_CancelledReviewDiscarded ==
  (CancelledInReview /\ handling.pc = "done") =>
    (handling.posted = << >> /\ handling.err)

\* C18, the failing case: on gitlab the context is cancelled after the first
\* of two files was reviewed; the review with the one comment is posted and
\* the handler returns nil.
C18_GitlabPartialReviewPosted ==
  /\ CancelledInReview
  /\ cancelCase.platform = "gitlab"
  /\ cancelCase.provider = "OpenAI"
  /\ Len(cancelCase.files) = 2
  /\ handling.cancelledAt = 2
  /\ handling.pc = "done"
  /\ ~handling.err
  /\ Len(handling.posted) = 1
  /\ Len(handling.posted[1].Comments) = 1

\* C18, the case that works: on github, cancelled at the same point, nothing
\* is posted and the handler returns the error of CreateReview.
C18_GithubCancelledDiscarded ==
  /\ CancelledInReview
  /\ cancelCase.platform = "github"
  /\ Len(cancelCase.files) = 2
  /\ handling.cancelledAt = 2
  /\ handling.pc = "done"
  /\ handling.err
  /\ Len(handling.reviewComments) = 1
  /\ handling.posted = << >>

\* the path of the file in the repository matches the pattern
PathMatches(pattern, file) ==
  \/ pattern = <<"*">>
  \/ GlobMatch(Adjusted(pattern), <<"/">> \o file.Filename)

\* the file passes the three tests of the filter
PassesFilter(cfg, file) ==
  /\ \A n \in 1..Len(cfg.IgnoreList) : cfg.IgnoreList[n] # file.Filename
  /\ (cfg.IncludePatterns = << >>
        \/ \E n \in 1..Len(cfg.IncludePatterns) : PathMatches(cfg.IncludePatterns[n], file))
  /\ \A n \in 1..Len(cfg.IgnorePatterns) : ~PathMatches(cfg.IgnorePatterns[n], file)

\* sub is made of elements of seq in the order they have in seq
InOrder(sub, seq) ==
  \E at \in [1..Len(sub) -> 1..Len(seq)] :
    /\ \A n \in 1..Len(sub) : sub[n] = seq[at[n]]
    /\ \A a, b \in 1..Len(sub) : a < b => at[a] < at[b]

\* C19: filterFiles retains a file if and only if its path is not in the
\* ignore list, the include patterns are empty or one of them matches the
\* path, and no ignore pattern matches the path; the retained files are in
\* the order of the input.
C19_RetainedIffPassesFilter ==
  ~filtered.isNil =>
    /\ \A n \in 1..Len(filterCase.files) :
         (\E m \in 1..Len(filtered.val) : filtered.val[m] = filterCase.files[n])
           <=> PassesFilter(filterCase.config, filterCase.files[n])
    /\ InOrder(filtered.val, filterCase.files)

\* C19, the failing case: on gitlab main.go is not retained under the
\* include pattern "*.go" alone.
C19_GitlabGoFileDropped ==
  /\ filterCase # << >>
  /\ filterCase.platform = "gitlab"
  /\ filterCase.config.IgnoreList = << >>
  /\ filterCase.config.IncludePatterns = <<StarGo>>
  /\ filterCase.config.IgnorePatterns = << >>
  /\ filterCase.files = <<ReadmeMd, MainGo>>
  /\ ~filtered.isNil
  /\ filtered.val = << >>

\* C19, another failing case: on gitea, with no list and no pattern, the
\* file 100%.go is not retained.
C19_GiteaPercentFileDropped ==
  /\ filterCase # << >>
  /\ filterCase.platform = "gitea"
  /\ filterCase.config.IgnoreList = << >>
  /\ filterCase.config.IncludePatterns = << >>
  /\ filterCase.config.IgnorePatterns = << >>
  /\ filterCase.files = <<PercentGo, MainGo>>
  /\ ~filtered.isNil
  /\ filtered.val = <<MainGo>>

\* C19, the case that works: on github, with "*.go" included and main.go in
\* the ignore list, README.md and main.go are dropped and 100%.go is kept.
C19_GithubFiltered ==
  /\ filterCase # << >>
  /\ filterCase.platform = "github"
  /\ filterCase.config.IgnoreList = <<MainGo.Filename>>
  /\ filterCase.config.IncludePatterns = <<StarGo>>
  /\ filterCase.files = <<MainGo, PercentGo>>
  /\ ~filtered.isNil
  /\ filtered.val = <<PercentGo>>

\* C20: a pattern with a leading "/" is anchored to the root of the
\* repository: with the include patterns {"/x/**"} and nothing ignored, x/y
\* is retained and a/x/y is not.
C20_LeadingSlashAnchored ==
  (/\ ~filtered.isNil
   /\ filterCase.config.IgnoreList = << >>
   /\ filterCase.config.IncludePatterns = <<SlashX>>
   /\ filterCase.config.IgnorePatterns = << >>)
  => \A n \in 1..Len(filterCase.files) :
       /\ filterCase.files[n] = XY
            => \E m \in 1..Len(filtered.val) : filtered.val[m] = XY
       /\ \A m \in 1..Len(filtered.val) : filtered.val[m] # AXY

\* C20, the failing case: on github the include patterns {"/x/**"} retain
\* both x/y and a/x/y.
C20_NestedPathRetained ==
  /\ filterCase # << >>
  /\ filterCase.platform = "github"
  /\ filterCase.config.IgnoreList = << >>
  /\ filterCase.config.IncludePatterns = <<SlashX>>
  /\ filterCase.config.IgnorePatterns = << >>
  /\ filterCase.files = <<XY, AXY>>
  /\ ~filtered.isNil
  /\ filtered.val = <<XY, AXY>>

\* the chunks one after the other
RECURSIVE Concat(_)
Concat(chunks) == IF chunks = << >> THEN << >> ELSE Head(chunks) \o Concat(Tail(chunks))

\* the text without its "diff --git" markers
Unframed(text) == SelectSeq(text, LAMBDA piece : piece # Marker)

\* C21: for a patch whose estimated size is at most maxTokens, splitPatch
\* returns exactly one chunk, equal to the patch.
C21_SmallPatchOneChunk ==
  (~returned.isNil /\ args.fn = "splitPatch"
     /\ estimateTokenCount(args.patch) <= args.maxTokens)
  => returned.val = <<args.patch>>

\* C21 witness: a patch of 16 bytes, 4 tokens, with maxTokens = 4 came back
\* as its only chunk.
C21_Witness ==
  /\ args # << >>
  /\ args.fn = "splitPatch"
  /\ args.maxTokens = 4
  /\ args.patch = <<Marker, "abcd", "a", "a">>
  /\ ~returned.isNil
  /\ returned.val = <<args.patch>>

\* C22: the chunks of a split patch, concatenated in index order, are the
\* patch up to the "diff --git" markers: nothing is lost, duplicated,
\* reordered or invented.
C22_ChunksConcatToPatch ==
  (~returned.isNil /\ args.fn = "splitPatch")
  => Unframed(Concat(returned.val)) = Unframed(args.patch)

\* C22, the failing case: a file of 3 tokens with maxTokens = 2 is split by
\* lines, and the chunks have a newline the patch has not.
C22_NewlineInvented ==
  /\ args # << >>
  /\ args.fn = "splitPatch"
  /\ args.maxTokens = 2
  /\ args.patch = <<Marker, "a", Newline, "a", Newline>>
  /\ ~returned.isNil
  /\ Concat(returned.val) = <<Marker, "a", Newline, "a", Newline, Newline>>

\* C30: every chunk splitPatch returns has an estimated token count of at
\* most maxTokens.
C30_ChunksTokenBounded ==
  (~returned.isNil /\ args.fn = "splitPatch")
  => \A n \in 1..Len(returned.val) :
       estimateTokenCount(returned.val[n]) <= args.maxTokens

\* C30, the failing case: two files of 11 bytes each, 2 tokens each, are
\* packed into one chunk of 22 bytes, 5 tokens, with maxTokens = 4.
C30_PackedChunkTooLarge ==
  /\ args # << >>
  /\ args.fn = "splitPatch"
  /\ args.maxTokens = 4
  /\ args.patch = <<Marker, "a", Marker, "a">>
  /\ ~returned.isNil
  /\ returned.val = <<args.patch>>
  /\ estimateTokenCount(returned.val[1]) = 5

\* C30, another failing case: a file of short lines is larger than
\* maxTokens = 2 and its lines, of no token each, all go into one chunk.
C30_ShortLinesNeverFlushed ==
  /\ args # << >>
  /\ args.fn = "splitPatch"
  /\ args.maxTokens = 2
  /\ args.patch = <<Marker, Newline, "a", Newline, "a">>
  /\ ~returned.isNil
  /\ Len(returned.val) = 1
  /\ estimateTokenCount(returned.val[1]) > 2

\* C23: a call of QueryContext never crashes and never returns an error,
\* whatever fails in the import, definition and similar-code queries (the
\* embedding, the store, the shape of its answers); each call returns a
\* context and the review goes on.
C23_QueryContextNeverFails ==
  \A k \in 1..Len(Calls) : ~Calls[k].crashed /\ ~Calls[k].err

WellFormed(resp) ==
  resp.kind = "ok" /\ resp.ids = "rows" /\ resp.metadatas = "rows" /\ resp.distances = "rows"

\* the embedding fails, the patch has no keyword, the store answers the
\* empty text query as it should: the call panics
C23_KeywordlessPatchCrashes ==
  /\ args.fn = "QueryContext" /\ args.storage = "chroma" /\ args.collection = "ok"
  /\ args.vector = "fails" /\ args.patch = <<"return", "x">>
  /\ args.documents = "ok" /\ WellFormed(args.resp)
  /\ Len(Calls) = 1 /\ Calls[1].crashed

\* the store cannot be reached: the sections it feeds are empty
C23_StoreDownEmptySections ==
  /\ args.fn = "QueryContext" /\ args.storage = "chroma" /\ args.resp.kind = "net"
  /\ args.vector = "ok" /\ args.patch = <<"alpha">>
  /\ Len(Calls) = 1 /\ ~Calls[1].crashed
  /\ Calls[1].context.Definitions = {} /\ Calls[1].context.SimilarCode = << >>

Snippets(call) == {call.context.SimilarCode[k].Content : k \in 1..Len(call.context.SimilarCode)}

\* C25: two calls of QueryContext on the same file with nothing written in
\* between return the same set of similar snippets, also when the embedding
\* fails and the keywords of the patch are queried as text.
C25_SameSimilarSnippets ==
  Len(Calls) = 2 => Snippets(Calls[1]) = Snippets(Calls[2])

\* the embedding fails, the patch has two keywords and the store ranks by
\* the query texts: the two calls return different snippets
C25_KeywordOrderChangesSnippets ==
  /\ args.fn = "QueryContext" /\ args.storage = "chroma" /\ args.collection = "ok"
  /\ args.vector = "fails" /\ args.patch = <<"Alpha", "alpha", "beta">>
  /\ args.documents = "ok" /\ WellFormed(args.resp) /\ args.resp.honoursTexts
  /\ Len(Calls) = 2 /\ ~Calls[1].crashed /\ ~Calls[2].crashed
  /\ Snippets(Calls[1]) = {"d1"} /\ Snippets(Calls[2]) = {"d2", "d3"}

\* the embedding works: both calls return the snippets nearest to it
C25_EmbeddingSameSnippets ==
  /\ args.fn = "QueryContext" /\ args.storage = "chroma" /\ args.collection = "ok"
  /\ args.vector = "ok" /\ args.patch = <<"Alpha", "alpha", "beta">>
  /\ args.documents = "ok" /\ WellFormed(args.resp)
  /\ Len(Calls) = 2 /\ Snippets(Calls[1]) = {"d1", "d2"} /\ Snippets(Calls[2]) = {"d1", "d2"}

Got == returned.val.got.val

HasGot == args.fn = "SaveCodeSnippet" /\ ~returned.isNil /\ ~returned.val.got.isNil

\* C24: on both backends GetCodeSnippet on the id SaveCodeSnippet returned
\* succeeds with the content saved, byte for byte, and with metadata that
\* holds every supplied key with its supplied value.
C24_GetReturnsWhatWasSaved ==
  HasGot =>
    /\ ~Got.err
    /\ Got.content = args.content
    /\ \A name \in DOMAIN args.metadata :
         name \in DOMAIN Got.metadata /\ Got.metadata[name] = args.metadata[name]

\* local storage, metadata with a commit hash: the snippet is not found
C24_LocalCommitHashNotFound ==
  /\ HasGot /\ args.backend = "local" /\ args.repoKey = <<"owner", "/", "repo">>
  /\ args.filename = <<"main.go">>
  /\ args.metadata = [name \in {"commit_hash", "language"} |->
                        IF name = "commit_hash" THEN LongHash ELSE "go"]
  /\ Got.err

\* local storage, metadata without a commit hash: the snippet comes back
C24_LocalDefaultRoundTrip ==
  /\ HasGot /\ args.backend = "local" /\ args.repoKey = <<"owner", "/", "repo">>
  /\ args.filename = <<"src", "/", "main.go">>
  /\ args.metadata = [name \in {"language"} |-> "python"]
  /\ ~Got.err /\ Got.content = args.content /\ Got.metadata["language"] = "python"

\* Chroma, an owner/repo key: the id leads to another collection
C24_ChromaOtherCollection ==
  /\ HasGot /\ args.backend = "chroma" /\ args.repoKey = <<"owner", "/", "repo">>
  /\ args.filename = <<"main.go">> /\ args.metadata = << >>
  /\ Got.err

\* Chroma, a key that leads back to its collection: the supplied language
\* is replaced by the one of the file name
C24_ChromaLanguageReplaced ==
  /\ HasGot /\ args.backend = "chroma" /\ args.repoKey = <<"owner", "_", "repo">>
  /\ args.filename = <<"main.go">> /\ args.metadata = [name \in {"language"} |-> "python"]
  /\ ~Got.err /\ Got.metadata["language"] = "go"

\* Chroma: content that is not valid UTF-8 comes back changed
C24_ChromaContentChanged ==
  /\ HasGot /\ args.backend = "chroma" /\ args.content = <<"caf", Invalid>>
  /\ ~Got.err /\ Got.content = <<"caf", Replacement>>

\* the secrets of the environment: the keys, the tokens, the webhook secret
Secrets == {args.env[field] : field \in SecretFields \cup {"WebhookSecret"}} \ {""}

Leaks(line) == \E n \in 1..Len(line) : line[n] \in Secrets

\* C26: no line the program logs holds a provider API key, a platform token
\* or the webhook secret.
C26_NoSecretLogged ==
  args.fn = "main" => \A n \in 1..Len(Logged.lines) : ~Leaks(Logged.lines[n])

\* main has logged the configuration: the lines hold the token and the keys
C26_LoadedConfigLeaks ==
  /\ args.fn = "main" /\ Logged.ran = {"main"}
  /\ args.env["GithubToken"] = "ghp-token" /\ args.env["OpenAIAPIKey"] = "sk-openai"
  /\ \E n \in 1..Len(Logged.lines) :
       \E m \in 1..Len(Logged.lines[n]) : Logged.lines[n][m] = "ghp-token"
  /\ \E n \in 1..Len(Logged.lines) :
       /\ Logged.lines[n][1] = "Storage config: "
       /\ \E m \in 1..Len(Logged.lines[n]) : Logged.lines[n][m] = "sk-openai"

\* LogConfig alone: the keys are set and the lines say [REDACTED]
C26_LogConfigRedacts ==
  /\ args.fn = "main" /\ Logged.ran = {"LogConfig"}
  /\ args.env["IndexerVectorType"] = "openai" /\ args.env["OpenAIAPIKey"] = "sk-openai"
  /\ \A n \in 1..Len(Logged.lines) : ~Leaks(Logged.lines[n])
  /\ \E n \in 1..Len(Logged.lines) : Logged.lines[n] = <<"  OpenAI API Key: [REDACTED]">>

Validated == args.fn = "Validate" /\ ~returned.isNil /\ returned.val.call = "Validate"

ValidStorage(cfg) ==
  \/ cfg.StorageType = "chroma" /\ cfg.ChromaHost # "" /\ cfg.ChromaPort > 0
  \/ cfg.StorageType = "local" /\ cfg.LocalStoragePath # ""

\* C28: Validate returns nil for chroma with a host and a port above 0, or
\* local with a path, together with the vector type simple; it returns an
\* error for an unsupported storage type, an empty Chroma host, a Chroma port
\* of 0 or less, an empty local path, an unsupported vector type, openai
\* without an API key and local without a model path.
C28_ValidateAcceptsAndRejects ==
  Validated =>
    LET cfg == args.cfg
        err == returned.val.err
    IN /\ (ValidStorage(cfg) /\ cfg.VectorType = "simple") => err = NoError
       /\ cfg.StorageType \notin {"chroma", "local"} => err # NoError
       /\ (cfg.StorageType = "chroma" /\ cfg.ChromaHost = "") => err # NoError
       /\ (cfg.StorageType = "chroma" /\ cfg.ChromaPort <= 0) => err # NoError
       /\ (cfg.StorageType = "local" /\ cfg.LocalStoragePath = "") => err # NoError
       /\ cfg.VectorType = "invalid" => err # NoError
       /\ (cfg.VectorType = "openai" /\ cfg.OpenAIAPIKey = "") => err # NoError
       /\ (cfg.VectorType = "local" /\ cfg.LocalModelPath = "") => err # NoError

\* a valid storage with openai and no key has been refused, in the build
\* that knows llm_proxy
C28_OpenAIWithoutKeyRefused ==
  /\ Validated /\ args.build = "local_storage.go" /\ ValidStorage(args.cfg)
  /\ args.cfg.VectorType = "openai" /\ args.cfg.OpenAIAPIKey = ""
  /\ returned.val.err = "openai api key is required"

\* C29: once Validate has succeeded, a MaxFileSizeBytes of 0 or less has
\* become 1048576 and a ChunkSize of 0 or less has become 100; positive
\* values are as they were.
C29_DefaultsApplied ==
  (Validated /\ returned.val.err = NoError) =>
    /\ returned.val.cfg.MaxFileSizeBytes =
         IF args.cfg.MaxFileSizeBytes <= 0 THEN 1048576 ELSE args.cfg.MaxFileSizeBytes
    /\ returned.val.cfg.ChunkSize =
         IF args.cfg.ChunkSize <= 0 THEN 100 ELSE args.cfg.ChunkSize

\* a negative size has been replaced and a positive chunk size kept
C29_NegativeReplacedPositiveKept ==
  /\ Validated /\ returned.val.err = NoError
  /\ args.cfg.MaxFileSizeBytes = -1 /\ args.cfg.ChunkSize = 50
  /\ returned.val.cfg.MaxFileSizeBytes = 1048576 /\ returned.val.cfg.ChunkSize = 50

Created ==
  args.fn = "Validate" /\ ~returned.isNil /\ returned.val.call = "CreateIndexManager"

\* C27: whenever Validate accepts the configuration and the storage can be
\* created, CreateIndexManager succeeds; with the vector type simple it
\* needs no OpenAI key and no LLM proxy credentials.
C27_AcceptedTypesCreate ==
  (Created /\ Validate(args.build, args.cfg).err = NoError /\ ~args.storageFails)
    => returned.val.err = NoError

NoCredentials(cfg) ==
  cfg.OpenAIAPIKey = "" /\ cfg.LLMProxyEndpoint = "" /\ cfg.LLMProxyAPIKey = ""

\* local storage with a path, the vector type simple, no credentials: the
\* build of local_storage.go refuses to create the vector service
C27_SimpleRefused ==
  /\ Created /\ args.build = "local_storage.go" /\ ~args.storageFails
  /\ args.cfg.StorageType = "local" /\ args.cfg.LocalStoragePath = "./data/index"
  /\ args.cfg.VectorType = "simple" /\ NoCredentials(args.cfg)
  /\ returned.val.err = "failed to create vector service: unsupported vector type"

\* the same configuration in the build of config.go: the manager is created
\* with the simple vector service
C27_SimpleCreated ==
  /\ Created /\ args.build = "config.go" /\ ~args.storageFails
  /\ args.cfg.StorageType = "local" /\ args.cfg.LocalStoragePath = "./data/index"
  /\ args.cfg.VectorType = "simple" /\ NoCredentials(args.cfg)
  /\ args.cfg.LocalModelPath = ""
  /\ returned.val.err = NoError /\ returned.val.vector = "simple"


\* C31: every prompt handed to a provider for a chunk of a patch of several
\* chunks carries that chunk's "part i of N" label, the prompts of the
\* retries included
C31_EveryPromptLabelled == chunkCount > 1 => \A p \in sentPrompts : p.label

\* a chunk of a patch of several chunks was retried, and the prompt of the
\* retry went out without the label
C31_RetryPromptUnlabelled ==
  /\ chunkCount > 1
  /\ \E idx \in 0..(chunkCount - 1) :
       /\ tries[idx + 1] > 1
       /\ Prompt(idx, TRUE) \in sentPrompts
       /\ Prompt(idx, FALSE) \in sentPrompts

\* the goroutines' own prompts are all labelled: before any retry every
\* prompt sent for a patch of several chunks carries its label
C31_WorkerPromptsLabelled ==
  (chunkCount > 1 /\ \A k \in 1..chunkCount : tries[k] <= 1)
    => \A p \in sentPrompts : p.label

C31_WorkerPromptSent ==
  /\ chunkCount > 1
  /\ \A k \in 1..chunkCount : tries[k] = 1
  /\ sentPrompts = {Prompt(idx, TRUE) : idx \in 0..(chunkCount - 1)}

\* a verdict with some text in it
NonEmptyVerdict(v) ==
  \/ v.ReviewComment # EmptyStr
  \/ v.Summary # EmptyStr
  \/ v.Suggestions # EmptyStr
  \/ v.Highlights # EmptyStr
  \/ v.Risks # EmptyStr

\* C36: the LGTM of a merged review is the AND of the lgtm of the non-empty
\* chunk verdicts only; a verdict whose string fields are all empty does
\* not change it
C36_LgtmOverNonEmptyVerdicts ==
  ~mergeOutput.isNil
    => mergeOutput.val.LGTM =
         (\A k \in 1..Len(mergeInput) : NonEmptyVerdict(mergeInput[k]) => mergeInput[k].LGTM)

\* a verdict with text that is LGTM and the verdict json.Unmarshal leaves
\* for the object {} (lgtm false, every string empty) were merged: the
\* merged review is not LGTM
C36_EmptyVerdictVetoes ==
  /\ ~mergeOutput.isNil
  /\ Len(mergeInput) = 2
  /\ NonEmptyVerdict(mergeInput[1]) /\ mergeInput[1].LGTM
  /\ mergeInput[2] = ZeroResult
  /\ ~mergeOutput.val.LGTM

\* an empty verdict that is LGTM, like the neutral verdict of a chunk whose
\* retries all failed, never changes the merged flag
C36_EmptyLgtmVerdictsIgnored ==
  (~mergeOutput.isNil
   /\ \A k \in 1..Len(mergeInput) : ~NonEmptyVerdict(mergeInput[k]) => mergeInput[k].LGTM)
    => mergeOutput.val.LGTM =
         (\A k \in 1..Len(mergeInput) : NonEmptyVerdict(mergeInput[k]) => mergeInput[k].LGTM)

C36_NeutralVerdictIgnored ==
  /\ ~mergeOutput.isNil
  /\ Len(mergeInput) = 2
  /\ mergeInput[1] = NeutralResult
  /\ NonEmptyVerdict(mergeInput[2]) /\ mergeInput[2].LGTM
  /\ mergeOutput.val.LGTM

\* the ceiling of n / 4
CeilingOfQuarter(n) == (n + 3) \div 4

\* C38: the estimate of a text is the ceiling of its length divided by 4,
\* and splitPatch returns the patch as one chunk or splits it by comparing
\* that estimate with maxTokens
C38_EstimateIsCeiling ==
  (~returned.isNil /\ args.fn = "splitPatch")
    => /\ estimateTokenCount(args.patch) = CeilingOfQuarter(ByteLen(args.patch))
       /\ returned.val =
            IF CeilingOfQuarter(ByteLen(args.patch)) <= args.maxTokens
            THEN <<args.patch>>
            ELSE splitPatch_alwaysPacks(args.patch, args.maxTokens)

\* a patch whose length is no multiple of 4 and whose rounded-up estimate
\* is above maxTokens came back whole, where the splitting gives something
\* else
C38_RoundedDownNotSplit ==
  /\ ~returned.isNil /\ args.fn = "splitPatch"
  /\ ByteLen(args.patch) = 4 * args.maxTokens + 1
  /\ estimateTokenCount(args.patch) = args.maxTokens
  /\ returned.val = <<args.patch>>
  /\ splitPatch_alwaysPacks(args.patch, args.maxTokens) # <<args.patch>>

\* what decides is the length rounded down: a patch is returned whole up to
\* 4 * maxTokens + 3 bytes and split from 4 * maxTokens + 4 bytes on
C38_LengthDecides ==
  (~returned.isNil /\ args.fn = "splitPatch")
    => returned.val =
         IF ByteLen(args.patch) < 4 * args.maxTokens + 4
         THEN <<args.patch>>
         ELSE splitPatch_alwaysPacks(args.patch, args.maxTokens)

C38_SplitAtFourMore ==
  /\ ~returned.isNil /\ args.fn = "splitPatch"
  /\ ByteLen(args.patch) = 4 * args.maxTokens + 4
  /\ returned.val # <<args.patch>>

\* ------------------------------------------- CodeReview under fair scheduling
\* the Go scheduler runs a goroutine that can run, and every provider call
\* returns: while CodeReview or one of its goroutines can take a step, one
\* of them does. (Nothing is assumed about which one.)
Fairness == WF_vars(Next)

SpecLive == Init /\ [][Next]_vars /\ Fairness

\* the messages CodeReview has taken from the channel
Received == i + (IF pc = "retry" THEN 1 ELSE 0)

Finished == {idx \in DOMAIN worker : worker[idx] = "done"}

\* a goroutine whose call has returned finds room in the channel; every
\* goroutine that finished has sent one message, which is in the channel or
\* was received; CodeReview has returned only with N messages received,
\* every goroutine finished and nothing left in the channel
C39_OneSendEachAllReceived ==
  chunkCount > 1 =>
    /\ \A idx \in DOMAIN worker : worker[idx] = "running" => Len(resultChan) < ChanCapacity
    /\ Cardinality(Finished) = Len(resultChan) + Received
    /\ \A idx \in DOMAIN worker :
         Cardinality({n \in 1..Len(resultChan) : resultChan[n].index = idx})
           <= (IF idx \in Finished THEN 1 ELSE 0)
    /\ pc \in {"returned", "done"} =>
         /\ Received = chunkCount
         /\ Finished = DOMAIN worker
         /\ resultChan = << >>

\* C39: for N chunks each worker goroutine sends exactly one result and its
\* send never blocks; CodeReview returns only after it has received exactly
\* N results, which it eventually does when every provider call returns;
\* no goroutine is left blocked on the channel when CodeReview returns
C39_WorkersSendOnceAndReturn ==
  /\ []C39_OneSendEachAllReceived
  /\ <>(pc \in {"returned", "done"})

\* CodeReview returned for a patch of several chunks, one of them retried:
\* every goroutine has sent and every message was received
C39_ReturnedAfterAllReceived ==
  /\ chunkCount > 1
  /\ pc = "returned"
  /\ Finished = DOMAIN worker
  /\ resultChan = << >>
  /\ i = chunkCount
  /\ slept > 0

\* every goroutine sent before CodeReview received anything: the channel
\* holds N messages
C39_ChannelFull ==
  /\ chunkCount > 1
  /\ i = 0 /\ pc = "collect"
  /\ Len(resultChan) = chunkCount

\* the call took the vector query and the store answered it with a
\* well-formed row of ids and distances, and gave the documents asked for
VectorQueryAnswered(call) ==
  /\ call.fn = "QueryContext" /\ call.patch # << >>
  /\ call.storage = "chroma" /\ call.vector = "ok" /\ call.collection = "ok"
  /\ call.resp.kind = "ok" /\ call.resp.ids = "rows" /\ call.resp.distances = "rows"
  /\ call.resp.metadatas \in {"rows", "missing"}
  /\ call.documents = "ok"

\* the distance the store gave for a document of the embedding's row
StoreDistance(doc) ==
  Distance(CHOOSE j \in 1..Len(EmbeddingRow) : EmbeddingRow[j] = doc)

\* 1 - d, not below 0, in thousandths
ClampedSimilarity(distance) == IF 1000 - distance < 0 THEN 0 ELSE 1000 - distance

\* the largest tie-breaking term: a thousandth for every place in the row
MaxJitter == Len(EmbeddingRow) - 1

\* C32: a similar-code hit carries the similarity 1 - d for its distance d
\* (not below 0, less the tie-breaking term of its place), and the hits are
\* in the order of falling similarity: a hit with a smaller distance never
\* comes after a hit with a larger one beyond the tie-breaking term
C32_SimilarityFromDistance ==
  (args # << >> /\ VectorQueryAnswered(args))
    => \A n \in 1..Len(Calls) :
         ~Calls[n].crashed =>
           LET hits == Calls[n].context.SimilarCode
           IN /\ \A k \in 1..Len(hits) :
                   /\ hits[k].Similarity <= ClampedSimilarity(StoreDistance(hits[k].Content))
                   /\ hits[k].Similarity
                        >= ClampedSimilarity(StoreDistance(hits[k].Content)) - MaxJitter
              /\ \A k, j \in 1..Len(hits) :
                   k < j => StoreDistance(hits[k].Content)
                              <= StoreDistance(hits[j].Content) + MaxJitter

\* the store ranked d2 at distance 0.1 and d1 at distance 0.2; the call
\* returned d1 first with similarity 0.199 and d2 second with 0.1
C32_FartherHitFirst ==
  /\ args # << >> /\ VectorQueryAnswered(args)
  /\ Len(Calls) >= 1 /\ ~Calls[1].crashed
  /\ LET hits == Calls[1].context.SimilarCode
     IN /\ Len(hits) = 2
        /\ hits[1].Content = "d1" /\ StoreDistance("d1") = 200 /\ hits[1].Similarity = 199
        /\ hits[2].Content = "d2" /\ StoreDistance("d2") = 100 /\ hits[2].Similarity = 100

\* what the hits carry is the distance itself, less the tie-breaking term,
\* and they are in the order of falling distance
C32_SimilarityIsDistance ==
  (args # << >> /\ VectorQueryAnswered(args))
    => \A n \in 1..Len(Calls) :
         ~Calls[n].crashed =>
           LET hits == Calls[n].context.SimilarCode
           IN /\ \A k \in 1..Len(hits) :
                   /\ hits[k].Similarity <= StoreDistance(hits[k].Content)
                   /\ hits[k].Similarity >= StoreDistance(hits[k].Content) - MaxJitter
              /\ \A k, j \in 1..Len(hits) :
                   k < j => hits[k].Similarity >= hits[j].Similarity

\* the request of the call has gone out
QuerySent == args # << >> /\ args.fn = "QueryDocumentsWithEmbedding" /\ stored # << >>

\* C33: when the dimension of the query vector differs from the expected
\* one, the vector in the request sent to the store is the padded or
\* truncated one: the adjustment happens before the request is sent
C33_RequestCarriesAdjusted ==
  (QuerySent /\ Len(args.queryEmbedding) # ExpectedDimension)
    => stored.request.query_embeddings = <<AdjustedEmbedding(args.queryEmbedding)>>

\* a vector one component short was queried: the request went out with the
\* short vector, and the call adjusted its local copy afterwards and
\* returned without using it
C33_AdjustedAfterSend ==
  /\ QuerySent /\ Len(args.queryEmbedding) = ExpectedDimension - 1
  /\ stored.request.query_embeddings = <<args.queryEmbedding>>
  /\ Len(stored.request.query_embeddings[1]) # ExpectedDimension
  /\ stored.adjusted
  /\ stored.queryEmbedding = AdjustedEmbedding(args.queryEmbedding)
  /\ ~returned.isNil /\ returned.val.err = ""

\* the request always carries the vector as it was passed in, and no step
\* after the sending changes the request
C33_RequestCarriesGiven ==
  QuerySent => stored.request.query_embeddings = <<args.queryEmbedding>>

Enriched == args # << >> /\ args.fn = "EnrichPatchWithContext" /\ ~returned.isNil

\* what the enriched patch has in front of the original patch
ContextPart == SubSeq(returned.val, 1, Len(returned.val) - Len(args.patch))

HasSection(header) == \E k \in 1..Len(ContextPart) : ContextPart[k] = header

\* the parts of a context that have an element, by the header of their section
NonEmptyParts(ctx) ==
  {ImportsHeader : k \in 1..Len(ctx.Imports)}
  \cup {DefinitionsHeader : e \in ctx.Definitions}
  \cup {ReferencesHeader : k \in 1..Len(ctx.References)}
  \cup {DependenciesHeader : k \in 1..Len(ctx.Dependencies)}
  \cup {SimilarHeader : k \in 1..Len(ctx.SimilarCode)}

SectionHeaders ==
  {ImportsHeader, DefinitionsHeader, ReferencesHeader, DependenciesHeader, SimilarHeader}

\* C37: the enriched patch ends with the original patch, unchanged; it has a
\* context section for each non-empty part of the CodeContext and for no
\* other; with a nil context or with every part empty it is the original
\* patch
C37_EnrichedEndsWithPatch ==
  Enriched =>
    /\ Len(returned.val) >= Len(args.patch)
    /\ SubSeq(returned.val, Len(returned.val) - Len(args.patch) + 1, Len(returned.val))
         = args.patch
    /\ \A header \in SectionHeaders :
         HasSection(header) <=>
           (~args.context.isNil /\ header \in NonEmptyParts(args.context.val))
    /\ (args.context.isNil \/ NonEmptyParts(args.context.val) = {})
         => returned.val = args.patch

\* a context with definitions and a similar snippet only: the enriched
\* patch has these two sections, no other, and the patch at its end
C37_TwoSectionsThenPatch ==
  /\ Enriched /\ ~args.context.isNil
  /\ args.patch = <<"@@ -1 +1 @@\n", "+x := 1">>
  /\ NonEmptyParts(args.context.val) = {DefinitionsHeader, SimilarHeader}
  /\ HasSection(DefinitionsHeader) /\ HasSection(SimilarHeader)
  /\ ~HasSection(ImportsHeader)
  /\ returned.val[Len(returned.val)] = "+x := 1"
  /\ Len(returned.val) > Len(args.patch)

\* a context that is not nil with every part empty: the patch comes back
C37_EmptyContextGivesPatch ==
  /\ Enriched /\ ~args.context.isNil
  /\ NonEmptyParts(args.context.val) = {}
  /\ args.patch # << >>
  /\ returned.val = args.patch

\* a snippet was saved on the local backend and the listings were taken
Listed ==
  /\ args # << >> /\ args.fn = "SaveCodeSnippet" /\ args.backend = "local"
  /\ ~returned.isNil /\ ~returned.val.err /\ ~returned.val.listed.isNil

\* C35: after SaveCodeSnippet returned an id on the local backend, the
\* listing of the repository and the listing of the file both hold the id,
\* with or without commit_hash in the metadata
C35_ListsContainSaved ==
  Listed => /\ returned.val.id \in returned.val.listed.val.byRepo
            /\ returned.val.id \in returned.val.listed.val.byFile

\* the key owner_repo with a commit hash in the metadata: the snippet lies
\* under commits/1a2b3c4d and neither listing has it
C35_CommitHashNotListed ==
  /\ Listed
  /\ args.repoKey = <<"owner", "_", "repo">>
  /\ "commit_hash" \in DOMAIN args.metadata /\ args.metadata["commit_hash"] = LongHash
  /\ returned.val.id \notin returned.val.listed.val.byRepo
  /\ returned.val.id \notin returned.val.listed.val.byFile

\* the key owner/repo without a commit hash: the snippet lies under the
\* directory of another key and neither listing has it
C35_SlashKeyNotListed ==
  /\ Listed
  /\ args.repoKey = <<"owner", "/", "repo">>
  /\ args.metadata = << >>
  /\ returned.val.listed.val.byRepo = {}
  /\ returned.val.listed.val.byFile = {}

\* a key without "/" and no commit hash, or an empty one: both listings
\* hold the id
C35_PlainKeyListed ==
  (Listed /\ args.repoKey = <<"owner", "_", "repo">>
   /\ ("commit_hash" \in DOMAIN args.metadata => args.metadata["commit_hash"] = ""))
    => /\ returned.val.id \in returned.val.listed.val.byRepo
       /\ returned.val.id \in returned.val.listed.val.byFile

C35_PlainKeyWitness ==
  /\ Listed /\ args.repoKey = <<"owner", "_", "repo">> /\ args.filename = <<"main.go">>
  /\ args.metadata = << >>
  /\ returned.val.listed.val.byRepo = {returned.val.id}
  /\ returned.val.listed.val.byFile = {returned.val.id}
\* ------------------------------------------------------------------- C34
AllReturned == CollectionCall /\ \A c \in Callers : stored.at[c] = "done"

SameCollection ==
  \E id \in {stored.store[n] : n \in DOMAIN stored.store} :
    \A c \in Callers : stored.result[c] = Ptr([collID |-> id, err |-> FALSE])

\* the POSTs that made a collection, counted by what the store holds beyond
\* what it held before the first call
CollectionsCreated == Len(stored.store) - (IF args.exists THEN 1 ELSE 0)

\* C34: whatever the interleaving of the concurrent first calls for one
\* repoKey, the collection is created at most once, and once all callers
\* have returned every one of them has the same collection ID (none has an
\* error), so the store holds one collection of that name.
C34_OneCollectionOneID ==
  CollectionCall =>
    /\ CollectionsCreated <= 1
    /\ Len(stored.store) <= 1
    /\ AllReturned => SameCollection

\* C34, reached: both callers missed both caches and were told "not found";
\* the first POST made the collection, the store refused the second, and
\* the second caller returned an error instead of the collection ID.
C34_SecondCallerFails ==
  /\ AllReturned
  /\ args.policy = "refuse"
  /\ Len(stored.store) = 1
  /\ stored.result[1] = Ptr([collID |-> StoreID(1), err |-> FALSE])
  /\ stored.result[2] = Ptr([collID |-> << >>, err |-> TRUE])

\* C34, reached: with a store that takes a second POST for the name, the
\* two callers made two collections and hold different IDs.
C34_TwoCollections ==
  /\ AllReturned
  /\ Len(stored.store) = 2
  /\ \A c \in Callers : ~stored.result[c].val.err
  /\ stored.result[1].val.collID # stored.result[2].val.collID

\* C34, what holds: a caller that finds s.collections[repoKey] set returns
\* that ID, and the store never holds more collections of the name than
\* POSTs went out while it was missing from the client's cache; when the
\* store answers a repeated POST with the collection it has, all callers
\* return one ID.
C34_OneIDWhenStoreAnswersExisting ==
  (AllReturned /\ args.policy = "existing") => (SameCollection /\ Len(stored.store) = 1)

C34_BothPostedSameID ==
  /\ AllReturned
  /\ args.policy = "existing"
  /\ ~args.exists
  /\ SameCollection

====
